---- MODULE Spec2Model ----
(***************************************************************************)
(* Model of the pathogen prediction and risk-scoring engine of            *)
(* models/pathogen_predictor.py (class PathogenPredictor) and of the       *)
(* database manager of database/db_manager.py (class DatabaseManager).     *)
(*                                                                         *)
(* Python floats are IEEE-754 doubles.  Every double the engine handles    *)
(* is a multiple of 2^-56 below 4, so a double is modelled exactly as the  *)
(* pair <<hi, lo>> standing for (hi * 2^29 + lo) / 2^56, and an addition   *)
(* rounds to the nearest double, ties to even, as the hardware does.       *)
(***************************************************************************)
EXTENDS Integers, Sequences, FiniteSets, TLC

VARIABLES pathogen_knowledge, diagnosis_data, pc, rule, outcome, args, ret,
          resistance_data, breeding, calls,
          environ, manager, attempt, engine, events, database, stored

\* the state of the database manager (database/db_manager.py)
managervars == <<environ, manager, attempt, engine, events, database, stored>>

vars == <<pathogen_knowledge, diagnosis_data, pc, rule, outcome, args, ret,
          resistance_data, breeding, calls,
          environ, manager, attempt, engine, events, database, stored>>

(***************************************************************************)
(* Bounds of the model.                                                    *)
(***************************************************************************)
MaxSymptoms == 1

MaxNone == 1

MaxUlps == 5

MaxRows == 3

MaxCalls == 3

(***************************************************************************)
(* IEEE-754 double arithmetic on <<hi, lo>> pairs.                         *)
(***************************************************************************)
Limb == 536870912

Zero == <<0, 0>>

D01 == <<13421772, 429496730>>

D02 == <<26843545, 322122548>>

D03 == <<40265318, 214748364>>

D04 == <<53687091, 107374184>>

D05 == <<67108864, 0>>

D06 == <<80530636, 429496728>>

D08 == <<107374182, 214748368>>

D095 == <<127506841, 322122544>>

\* the spacing of doubles around a value whose high limb is hi, in units of 2^-56
Ulp(hi) ==
    IF hi >= 268435456 THEN 32
    ELSE IF hi >= 134217728 THEN 16
    ELSE IF hi >= 67108864 THEN 8
    ELSE IF hi >= 33554432 THEN 4
    ELSE IF hi >= 16777216 THEN 2
    ELSE 1

\* carry from the low limb into the high limb
Carry(hi, lo) == IF lo >= Limb THEN <<hi + 1, lo - Limb>> ELSE <<hi, lo>>

\* round x to a multiple of q, the nearest one, ties to the even multiple
RoundTo(x, q) ==
    LET r  == x[2] % q
        up == (q > 1) /\ ((2 * r > q) \/ ((2 * r = q) /\ ((x[2] \div q) % 2 = 1)))
    IN  Carry(x[1], IF up THEN x[2] - r + q ELSE x[2] - r)

\* round an exact sum to the nearest double, ties to even
RoundDouble(x) == RoundTo(x, Ulp(x[1]))

\* a + b on doubles
FAdd(a, b) == RoundDouble(Carry(a[1] + b[1], a[2] + b[2]))

\* a < b, a >= b, a > b on doubles
FLt(a, b) == (a[1] < b[1]) \/ ((a[1] = b[1]) /\ (a[2] < b[2]))

FGe(a, b) == ~FLt(a, b)

FGt(a, b) == FLt(b, a)

\* Python's min(a, b): b only when it is strictly smaller
FMin(a, b) == IF FLt(b, a) THEN b ELSE a

(***************************************************************************)
(* Python values.  A dictionary entry of the observation is a tagged       *)
(* value: the key may be absent (dict.get then yields its default), hold   *)
(* None (a value of an unexpected kind), or hold a value of the expected   *)
(* kind.                                                                   *)
(***************************************************************************)
Absent(z) == [k |-> "absent", v |-> z]

NoneVal(z) == [k |-> "none", v |-> z]

PyInt(n) == [k |-> "int", v |-> n]

PyStr(s) == [k |-> "str", v |-> s]

PyList(S) == [k |-> "list", v |-> S]

\* {} : the dictionary without keys
EmptyDict == [key \in {} |-> 0]

\* d.get(key, default) on an observation
Get(d, key, default) == IF d[key].k = "absent" THEN default ELSE d[key]

\* d.get(key, default) on a knowledge-base dictionary
DictGet(d, key, default) == IF key \in DOMAIN d THEN d[key] ELSE default

\* any(symptom in symptoms for symptom in tags)
AnySymptom(tags, symptoms) == \E symptom \in tags : symptom \in symptoms.v

(***************************************************************************)
(* The knowledge base built by _initialize_pathogen_knowledge.             *)
(***************************************************************************)
initialize_pathogen_knowledge ==
    [p \in {"Magnaporthe oryzae", "Rhizoctonia solani", "Xanthomonas oryzae"} |->
        CASE p = "Magnaporthe oryzae" ->
                [common_name |-> "Rice Blast",
                 type |-> "Fungal",
                 symptoms |-> <<"leaf spots", "neck rot", "panicle blast">>,
                 favorable_conditions |->
                     [temperature |-> <<20, 30>>, humidity |-> <<85, 100>>,
                      rainfall |-> "high"],
                 severity_factors |-> <<"growth_stage", "variety_susceptibility">>,
                 management |-> <<"Use resistant varieties",
                                  "Apply fungicides at early growth stages",
                                  "Improve field drainage",
                                  "Balanced fertilization">>]
          [] p = "Rhizoctonia solani" ->
                [common_name |-> "Sheath Blight",
                 type |-> "Fungal",
                 symptoms |-> <<"sheath blight", "lesions", "yellowing">>,
                 favorable_conditions |->
                     [temperature |-> <<25, 32>>, humidity |-> <<80, 100>>,
                      rainfall |-> "moderate to high"],
                 severity_factors |-> <<"plant_density", "nitrogen_level">>,
                 management |-> <<"Reduce plant density",
                                  "Balanced nitrogen application",
                                  "Apply fungicides at tillering stage",
                                  "Improve air circulation">>]
          [] p = "Xanthomonas oryzae" ->
                [common_name |-> "Bacterial Leaf Blight",
                 type |-> "Bacterial",
                 symptoms |-> <<"leaf blight", "yellowing", "wilting">>,
                 favorable_conditions |->
                     [temperature |-> <<25, 34>>, humidity |-> <<70, 100>>,
                      rainfall |-> "high with flooding"],
                 severity_factors |-> <<"wound_entry", "variety_susceptibility">>,
                 management |-> <<"Use certified seeds",
                                  "Apply copper-based bactericides",
                                  "Avoid excessive nitrogen",
                                  "Manage water levels">>]]

(***************************************************************************)
(* _rule_based_prediction.  The result records whether the call raised,    *)
(* the three scores it accumulated and the candidate list it returned.     *)
(***************************************************************************)
RuleRaise ==
    [raised |-> TRUE, blast_score |-> Zero, blight_score |-> Zero,
     bacterial_score |-> Zero, predictions |-> <<>>]

\* score += weight when the rule fires
Bump(score, fires, weight) == IF fires THEN FAdd(score, weight) ELSE score

\* a candidate whose confidence is the raw score, without the cap
Candidate_uncapped(name, score) ==
    IF FGt(score, D05)
    THEN <<[pathogen |-> name, confidence |-> score]>>
    ELSE <<>>

\* a candidate threshold of 0.4, inclusive
Candidate_low(name, score) ==
    IF FGe(score, D04)
    THEN <<[pathogen |-> name, confidence |-> FMin(score, D095)]>>
    ELSE <<>>

\* predictions.append({...}) when score > 0.5
Candidate(name, score) ==
    IF FGt(score, D05)
    THEN <<[pathogen |-> name, confidence |-> FMin(score, D095)]>>
    ELSE <<>>

BlastScore(symptoms, temperature, humidity, growth_stage) ==
    LET s1 == Bump(Zero, AnySymptom({"leaf spots", "neck rot", "panicle blast"}, symptoms), D04)
        s2 == Bump(s1, (20 <= temperature.v) /\ (temperature.v <= 30), D02)
        s3 == Bump(s2, humidity.v >= 85, D02)
    IN  Bump(s3, growth_stage.v \in {"Heading", "Flowering"}, D02)

BlightScore(symptoms, temperature, humidity, growth_stage) ==
    LET s1 == Bump(Zero, AnySymptom({"sheath blight", "lesions", "yellowing"}, symptoms), D04)
        s2 == Bump(s1, (25 <= temperature.v) /\ (temperature.v <= 32), D02)
        s3 == Bump(s2, humidity.v >= 80, D02)
    IN  Bump(s3, growth_stage.v \in {"Tillering", "Stem elongation"}, D02)

\* the rainfall rule with an inclusive bound
BacterialScore_ge(symptoms, temperature, humidity, rainfall) ==
    LET s1 == Bump(Zero, AnySymptom({"leaf blight", "yellowing", "wilting"}, symptoms), D04)
        s2 == Bump(s1, (25 <= temperature.v) /\ (temperature.v <= 34), D02)
        s3 == Bump(s2, humidity.v >= 70, D02)
    IN  Bump(s3, rainfall.v >= 10, D02)

BacterialScore(symptoms, temperature, humidity, rainfall) ==
    LET s1 == Bump(Zero, AnySymptom({"leaf blight", "yellowing", "wilting"}, symptoms), D04)
        s2 == Bump(s1, (25 <= temperature.v) /\ (temperature.v <= 34), D02)
        s3 == Bump(s2, humidity.v >= 70, D02)
    IN  Bump(s3, rainfall.v > 10, D02)

\* the fallback with the symptom test inverted
NoStrongPrediction_inverted(symptoms) ==
    IF symptoms.v = {}
    THEN <<[pathogen |-> "Magnaporthe oryzae", confidence |-> D06]>>
    ELSE <<[pathogen |-> "Unknown", confidence |-> D03]>>

\* the fallback that always guesses the most common pathogen
NoStrongPrediction_always(symptoms) ==
    <<[pathogen |-> "Magnaporthe oryzae", confidence |-> D06]>>

\* the fallback of lines 162-173, applied when no candidate qualified
NoStrongPrediction(symptoms) ==
    IF symptoms.v # {}
    THEN <<[pathogen |-> "Magnaporthe oryzae", confidence |-> D06]>>
    ELSE <<[pathogen |-> "Unknown", confidence |-> D03]>>

\* "Unknown" returned for empty symptoms whatever qualified
Predictions_unknown_first(strong, symptoms) ==
    IF symptoms.v = {} THEN <<[pathogen |-> "Unknown", confidence |-> D03]>>
    ELSE IF strong = <<>> THEN NoStrongPrediction(symptoms)
    ELSE strong

\* lines 162-175: the candidates, or the fallback when there is none
Predictions(strong, symptoms) ==
    IF strong = <<>> THEN NoStrongPrediction(symptoms) ELSE strong

\* the candidates listed with the highest score first
RuleReturn_by_score(symptoms, blast_score, blight_score, bacterial_score) ==
    [raised |-> FALSE,
     blast_score |-> blast_score,
     blight_score |-> blight_score,
     bacterial_score |-> bacterial_score,
     predictions |-> Predictions(IF FGt(bacterial_score, blast_score)
                                 THEN Candidate("Xanthomonas oryzae", bacterial_score)
                                      \o Candidate("Rhizoctonia solani", blight_score)
                                      \o Candidate("Magnaporthe oryzae", blast_score)
                                 ELSE Candidate("Magnaporthe oryzae", blast_score)
                                      \o Candidate("Rhizoctonia solani", blight_score)
                                      \o Candidate("Xanthomonas oryzae", bacterial_score),
                                 symptoms)]

\* the candidate list built from the three scores, in evaluation order
RuleReturn(symptoms, blast_score, blight_score, bacterial_score) ==
    [raised |-> FALSE,
     blast_score |-> blast_score,
     blight_score |-> blight_score,
     bacterial_score |-> bacterial_score,
     predictions |-> Predictions(Candidate("Magnaporthe oryzae", blast_score)
                                 \o Candidate("Rhizoctonia solani", blight_score)
                                 \o Candidate("Xanthomonas oryzae", bacterial_score),
                                 symptoms)]

rule_based_prediction(dd) ==
    IF dd.kind # "dict" THEN RuleRaise
    ELSE
    LET symptoms     == Get(dd, "symptoms", PyList({}))
        temperature  == Get(dd, "temperature", PyInt(25))
        humidity     == Get(dd, "humidity", PyInt(80))
        rainfall     == Get(dd, "rainfall", PyInt(0))
        growth_stage == Get(dd, "growth_stage", NoneVal(""))
    IN  IF \/ symptoms.k # "list"
           \/ temperature.k # "int"
           \/ humidity.k # "int"
           \/ rainfall.k # "int"
        THEN RuleRaise
        ELSE
        RuleReturn(symptoms,
                   BlastScore(symptoms, temperature, humidity, growth_stage),
                   BlightScore(symptoms, temperature, humidity, growth_stage),
                   BacterialScore(symptoms, temperature, humidity, rainfall))

(***************************************************************************)
(* _calculate_risk_level.  The result is the risk level, or Raised when a  *)
(* comparison fails on a value of an unexpected kind.                      *)
(***************************************************************************)
Raised == "<raised>"

\* range[0] <= x <= range[1]
InRange(range, x) == (range[1] <= x.v) /\ (x.v <= range[2])

\* the Medium threshold made strict
Classify_strict(base_risk) ==
    IF FGe(base_risk, D08) THEN "High"
    ELSE IF FGt(base_risk, D06) THEN "Medium"
    ELSE "Low"

\* lines 240-246: classify risk level
Classify(base_risk) ==
    IF FGe(base_risk, D08) THEN "High"
    ELSE IF FGe(base_risk, D06) THEN "Medium"
    ELSE "Low"

\* the bonuses clipped to 0.2 in total
calculate_risk_level_clipped(confidence, dd, pathogen_info) ==
    LET has_conditions == (DOMAIN pathogen_info # {})
                          /\ ("favorable_conditions" \in DOMAIN pathogen_info)
        favorable_conditions == pathogen_info["favorable_conditions"]
        temp          == Get(dd, "temperature", PyInt(25))
        humidity      == Get(dd, "humidity", PyInt(80))
        check_temp    == has_conditions /\ ("temperature" \in DOMAIN favorable_conditions)
        check_hum     == has_conditions /\ ("humidity" \in DOMAIN favorable_conditions)
        risk1 == Bump(confidence,
                      check_temp /\ InRange(favorable_conditions["temperature"], temp), D01)
        risk2 == Bump(risk1,
                      check_hum /\ InRange(favorable_conditions["humidity"], humidity), D01)
        severity      == Get(dd, "severity", PyInt(5))
        affected_area == Get(dd, "affected_area", PyInt(25))
        risk3 == Bump(risk2, severity.v >= 7, D01)
    IN  IF \/ check_temp /\ (temp.k # "int")
           \/ check_hum /\ (humidity.k # "int")
           \/ severity.k # "int"
           \/ affected_area.k # "int"
        THEN Raised
        ELSE Classify(FMin(Bump(risk3, affected_area.v >= 50, D01), FAdd(confidence, D02)))

calculate_risk_level(confidence, dd, pathogen_info) ==
    LET has_conditions == (DOMAIN pathogen_info # {})
                          /\ ("favorable_conditions" \in DOMAIN pathogen_info)
        favorable_conditions == pathogen_info["favorable_conditions"]
        temp          == Get(dd, "temperature", PyInt(25))
        humidity      == Get(dd, "humidity", PyInt(80))
        check_temp    == has_conditions /\ ("temperature" \in DOMAIN favorable_conditions)
        check_hum     == has_conditions /\ ("humidity" \in DOMAIN favorable_conditions)
        risk1 == Bump(confidence,
                      check_temp /\ InRange(favorable_conditions["temperature"], temp), D01)
        risk2 == Bump(risk1,
                      check_hum /\ InRange(favorable_conditions["humidity"], humidity), D01)
        severity      == Get(dd, "severity", PyInt(5))
        affected_area == Get(dd, "affected_area", PyInt(25))
        risk3 == Bump(risk2, severity.v >= 7, D01)
    IN  IF \/ check_temp /\ (temp.k # "int")
           \/ check_hum /\ (humidity.k # "int")
           \/ severity.k # "int"
           \/ affected_area.k # "int"
        THEN Raised
        ELSE Classify(Bump(risk3, affected_area.v >= 50, D01))

(***************************************************************************)
(* _get_management_recommendations.                                        *)
(***************************************************************************)
\* recommendations without the truncation
Prefix_all(recommendations, n) == recommendations

\* recommendations[-n:], the last n entries
Prefix_last(recommendations, n) ==
    SubSeq(recommendations,
           IF Len(recommendations) < n THEN 1 ELSE Len(recommendations) - n + 1,
           Len(recommendations))

\* recommendations[:n]
Prefix(recommendations, n) ==
    SubSeq(recommendations, 1, IF Len(recommendations) < n THEN Len(recommendations) ELSE n)

\* the severity item appended instead of inserted at position 0
get_management_recommendations_append(pathogen, dd, pathogen_info) ==
    LET base == IF (DOMAIN pathogen_info # {}) /\ ("management" \in DOMAIN pathogen_info)
                THEN pathogen_info["management"]
                ELSE <<>>
        growth_stage == Get(dd, "growth_stage", PyStr("Tillering"))
        severity     == Get(dd, "severity", PyInt(5))
        humidity     == Get(dd, "humidity", PyInt(80))
        r1 == IF severity.v >= 7
              THEN Append(base, "Immediate intervention required due to high severity")
              ELSE base
        r2 == IF growth_stage.v \in {"Flowering", "Grain filling"}
              THEN Append(r1, "Apply protective measures to prevent grain infection")
              ELSE r1
        r3 == IF humidity.v >= 85
              THEN Append(r2, "Improve field ventilation to reduce humidity")
              ELSE r2
    IN  IF (severity.k # "int") \/ (humidity.k # "int")
        THEN [raised |-> TRUE, value |-> <<>>]
        ELSE [raised |-> FALSE, value |-> Prefix(r3, 5)]

\* the humidity default of the recommendation step set to 85
get_management_recommendations_humid(pathogen, dd, pathogen_info) ==
    LET base == IF (DOMAIN pathogen_info # {}) /\ ("management" \in DOMAIN pathogen_info)
                THEN pathogen_info["management"]
                ELSE <<>>
        growth_stage == Get(dd, "growth_stage", PyStr("Tillering"))
        severity     == Get(dd, "severity", PyInt(5))
        humidity     == Get(dd, "humidity", PyInt(85))
        r1 == IF severity.v >= 7
              THEN <<"Immediate intervention required due to high severity">> \o base
              ELSE base
        r2 == IF growth_stage.v \in {"Flowering", "Grain filling"}
              THEN Append(r1, "Apply protective measures to prevent grain infection")
              ELSE r1
        r3 == IF humidity.v >= 85
              THEN Append(r2, "Improve field ventilation to reduce humidity")
              ELSE r2
    IN  IF (severity.k # "int") \/ (humidity.k # "int")
        THEN [raised |-> TRUE, value |-> <<>>]
        ELSE [raised |-> FALSE, value |-> Prefix(r3, 5)]

get_management_recommendations(pathogen, dd, pathogen_info) ==
    LET base == IF (DOMAIN pathogen_info # {}) /\ ("management" \in DOMAIN pathogen_info)
                THEN pathogen_info["management"]
                ELSE <<>>
        growth_stage == Get(dd, "growth_stage", PyStr("Tillering"))
        severity     == Get(dd, "severity", PyInt(5))
        humidity     == Get(dd, "humidity", PyInt(80))
        r1 == IF severity.v >= 7
              THEN <<"Immediate intervention required due to high severity">> \o base
              ELSE base
        r2 == IF growth_stage.v \in {"Flowering", "Grain filling"}
              THEN Append(r1, "Apply protective measures to prevent grain infection")
              ELSE r1
        r3 == IF humidity.v >= 85
              THEN Append(r2, "Improve field ventilation to reduce humidity")
              ELSE r2
    IN  IF (severity.k # "int") \/ (humidity.k # "int")
        THEN [raised |-> TRUE, value |-> <<>>]
        ELSE [raised |-> FALSE, value |-> Prefix(r3, 5)]

(***************************************************************************)
(* _determine_action.                                                      *)
(***************************************************************************)
\* the second branch without its confidence test
determine_action_nogate(risk_level, confidence) ==
    IF (risk_level = "High") /\ FGe(confidence, D08) THEN "Immediate Treatment"
    ELSE IF risk_level = "High" THEN "Urgent Monitoring"
    ELSE IF risk_level = "Medium" THEN "Preventive Action"
    ELSE "Monitor & Observe"

\* the second branch with a strict confidence test
determine_action_strict(risk_level, confidence) ==
    IF (risk_level = "High") /\ FGe(confidence, D08) THEN "Immediate Treatment"
    ELSE IF (risk_level = "High") /\ FGt(confidence, D06) THEN "Urgent Monitoring"
    ELSE IF risk_level = "Medium" THEN "Preventive Action"
    ELSE "Monitor & Observe"

determine_action(risk_level, confidence) ==
    IF (risk_level = "High") /\ FGe(confidence, D08) THEN "Immediate Treatment"
    ELSE IF (risk_level = "High") /\ FGe(confidence, D06) THEN "Urgent Monitoring"
    ELSE IF risk_level = "Medium" THEN "Preventive Action"
    ELSE "Monitor & Observe"

(***************************************************************************)
(* _enhance_prediction, _fallback_prediction and predict.                  *)
(***************************************************************************)
\* lines 194-206: the enhanced result, or the exception raised while computing it
Enhanced(pathogen, confidence, pathogen_info, risk_level, recommendations) ==
    [raised |-> (risk_level = Raised) \/ recommendations.raised,
     value |->
        [pathogen |-> pathogen,
         common_name |-> DictGet(pathogen_info, "common_name", pathogen),
         pathogen_type |-> DictGet(pathogen_info, "type", "Unknown"),
         confidence |-> confidence,
         risk_level |-> risk_level,
         action |-> determine_action(risk_level, confidence),
         recommendations |-> recommendations.value,
         favorable_conditions |-> DictGet(pathogen_info, "favorable_conditions", EmptyDict),
         typical_symptoms |-> DictGet(pathogen_info, "symptoms", <<>>)]]

\* lines 182-192: look the pathogen up, then derive risk level and recommendations
EnhanceWith(pathogen, confidence, dd, pathogen_info) ==
    Enhanced(pathogen, confidence, pathogen_info,
             calculate_risk_level(confidence, dd, pathogen_info),
             get_management_recommendations(pathogen, dd, pathogen_info))

\* a lookup that falls back to the profile of the most common pathogen
enhance_prediction_default_profile(kb, result, dd) ==
    EnhanceWith(result.pathogen, result.confidence, dd,
                DictGet(kb, result.pathogen, kb["Magnaporthe oryzae"]))

enhance_prediction(kb, result, dd) ==
    EnhanceWith(result.pathogen, result.confidence, dd,
                DictGet(kb, result.pathogen, EmptyDict))

fallback_prediction(dd) ==
    <<[pathogen |-> "Unknown Pathogen",
       common_name |-> "Unknown Disease",
       pathogen_type |-> "Unknown",
       confidence |-> D03,
       risk_level |-> "Medium",
       action |-> "Laboratory Analysis Needed",
       recommendations |-> <<"Submit sample for laboratory analysis",
                             "Monitor field conditions closely",
                             "Apply general fungicide as precaution",
                             "Consult agricultural extension officer">>,
       favorable_conditions |-> EmptyDict,
       typical_symptoms |-> <<>>]>>

\* lines 92-97: the enhanced results, or the exception of the first failure
Collect(enhanced_results) ==
    IF \E i \in DOMAIN enhanced_results : enhanced_results[i].raised
    THEN [raised |-> TRUE, value |-> <<>>]
    ELSE [raised |-> FALSE,
          value |-> [i \in DOMAIN enhanced_results |-> enhanced_results[i].value]]

\* lines 92-95: enhance every candidate of the rule stage
EnhanceAll(kb, r, dd) ==
    IF r.raised
    THEN [raised |-> TRUE, value |-> <<>>]
    ELSE Collect([i \in 1..Len(r.predictions) |->
                     enhance_prediction(kb, r.predictions[i], dd)])

\* the body of the try block: the returned list, or the exception
predict_try(kb, dd) == EnhanceAll(kb, rule_based_prediction(dd), dd)

\* except Exception: return self._fallback_prediction(diagnosis_data)
Except(body, dd) ==
    IF body.raised
    THEN [raised |-> FALSE, value |-> fallback_prediction(dd)]
    ELSE body

\* an except clause that keeps what was computed before the failure
Except_partial(body, r, dd) ==
    IF body.raised
    THEN [raised |-> FALSE, value |-> r.predictions \o fallback_prediction(dd)]
    ELSE body

\* predict without the except clause: the exception reaches the caller
predict_reraise(kb, dd) == predict_try(kb, dd)

\* predict whose except clause returns what was computed before the failure
predict_partial(kb, dd) ==
    Except_partial(predict_try(kb, dd), rule_based_prediction(dd), dd)

\* try: ... except Exception: return self._fallback_prediction(diagnosis_data)
predict(kb, dd) == Except(predict_try(kb, dd), dd)

\* the profile's management list after the call, had recommendations been
\* the profile's own list: insert and append then act on the knowledge base
\* (the slice of the return statement makes a new list)
management_after_aliased(pathogen, dd, pathogen_info) ==
    LET base == pathogen_info["management"]
        growth_stage == Get(dd, "growth_stage", PyStr("Tillering"))
        severity     == Get(dd, "severity", PyInt(5))
        humidity     == Get(dd, "humidity", PyInt(80))
        r1 == IF severity.v >= 7
              THEN <<"Immediate intervention required due to high severity">> \o base
              ELSE base
        r2 == IF growth_stage.v \in {"Flowering", "Grain filling"}
              THEN Append(r1, "Apply protective measures to prevent grain infection")
              ELSE r1
    IN  IF humidity.v >= 85
        THEN Append(r2, "Improve field ventilation to reduce humidity")
        ELSE r2

\* the profile's management list after _get_management_recommendations:
\* recommendations is a list of its own (line 250) that extend copies the
\* actions into (line 253), so insert and append never reach the profile
management_after(pathogen, dd, pathogen_info) == pathogen_info["management"]

\* the knowledge base after predict, had the lookup of line 183 been a
\* setdefault: a pathogen without a profile gets an empty one
knowledge_after_setdefault(kb, body, dd) ==
    IF body.raised THEN kb
    ELSE [p \in DOMAIN kb \cup {body.value[i].pathogen : i \in DOMAIN body.value} |->
             IF p \in DOMAIN kb THEN kb[p] ELSE EmptyDict]

\* self.pathogen_knowledge after predict: no statement assigns to it, and the
\* only lists the call writes to are those of _get_management_recommendations
knowledge_after(kb, body, dd) ==
    IF body.raised THEN kb
    ELSE [p \in DOMAIN kb |->
             IF \E i \in DOMAIN body.value : body.value[i].pathogen = p
             THEN [kb[p] EXCEPT !.management = management_after(p, dd, kb[p])]
             ELSE kb[p]]

(***************************************************************************)
(* get_breeding_recommendations.  resistance_data is a DataFrame: the      *)
(* columns it has and its rows, each holding a pathogen name and a         *)
(* resistance score, a whole number or NaN.  A mean is kept as the exact   *)
(* fraction sum / count and a standard deviation by its square q / d;      *)
(* rounded values are whole numbers of hundredths.                         *)
(***************************************************************************)
\* the pathogen names in ascending order: groupby sorts the group keys
SortedNames == <<"A", "B", "C">>

RECURSIVE Total(_, _, _, _)
\* the sum of score^power over the rows from i on that belong to the
\* pathogen and hold a score; NaN is skipped (power 0 counts the scores)
Total(rows, pathogen, power, i) ==
    IF i > Len(rows) THEN 0
    ELSE (IF (rows[i].pathogen = pathogen) /\ (rows[i].resistance_score.k = "int")
          THEN CASE power = 0 -> 1
                 [] power = 1 -> rows[i].resistance_score.v
                 [] power = 2 -> rows[i].resistance_score.v * rows[i].resistance_score.v
          ELSE 0)
         + Total(rows, pathogen, power, i + 1)

RECURSIVE Bisect(_, _, _)
\* the largest r in lo..hi with r * r <= n
Bisect(lo, hi, n) ==
    IF lo >= hi THEN lo
    ELSE IF ((lo + hi + 1) \div 2) * ((lo + hi + 1) \div 2) <= n
         THEN Bisect((lo + hi + 1) \div 2, hi, n)
         ELSE Bisect(lo, ((lo + hi + 1) \div 2) - 1, n)

\* round(sqrt(q / d), 2) in hundredths: floor((floor(2 * 100 * sqrt(q / d)) + 1) / 2)
RoundSqrt(q, d) == (Bisect(0, 32768, (40000 * q) \div d) + 1) \div 2

\* round(num / den, 2) in hundredths, ties to the even hundredth
RoundDiv(num, den) ==
    IF 2 * ((100 * num) % den) > den THEN ((100 * num) \div den) + 1
    ELSE IF (2 * ((100 * num) % den) = den) /\ (((100 * num) \div den) % 2 = 1)
         THEN ((100 * num) \div den) + 1
         ELSE (100 * num) \div den

\* one row of groupby('pathogen')['resistance_score'].agg(['mean', 'std', 'count'])
Agg(pathogen, sum, squares, count) ==
    [pathogen |-> pathogen,
     mean |-> [nan |-> count = 0, sum |-> sum, count |-> count],
     std |-> [nan |-> count < 2,
              q |-> count * squares - sum * sum,
              d |-> count * (count - 1)]]

\* the aggregated rows, one for each pathogen among the rows, sorted by name
GroupBy(rows) ==
    LET present(pathogen) == \E i \in 1..Len(rows) : rows[i].pathogen = pathogen
        keys == SelectSeq(SortedNames, present)
    IN  [j \in 1..Len(keys) |->
            Agg(keys[j], Total(rows, keys[j], 1, 1), Total(rows, keys[j], 2, 1),
                Total(rows, keys[j], 0, 1))]

\* avg_resistance < bound: False when the mean is NaN
MeanLt(mean, bound) == (~mean.nan) /\ (mean.sum < bound * mean.count)

\* variability > bound: False when the standard deviation is NaN
StdGt(std, bound) == (~std.nan) /\ (std.q > bound * bound * std.d)

\* a High threshold that includes the bound
Priority_le(mean) ==
    IF (~mean.nan) /\ (mean.sum <= 4 * mean.count) THEN "High"
    ELSE IF MeanLt(mean, 6) THEN "Medium"
    ELSE "Low"

\* lines 328-336: the priority of a mean
Priority(mean) ==
    IF MeanLt(mean, 4) THEN "High"
    ELSE IF MeanLt(mean, 6) THEN "Medium"
    ELSE "Low"

\* lines 328-336: the message of a priority
Message(priority, pathogen) ==
    CASE priority = "High" ->
            "Urgent need to develop varieties with higher resistance to " \o pathogen
      [] priority = "Medium" ->
            "Improve resistance levels to " \o pathogen \o " through selective breeding"
      [] priority = "Low" ->
            "Maintain current resistance levels to " \o pathogen

\* the variability test with an inclusive bound
Variability_ge(recommendation, std) ==
    IF (~std.nan) /\ (std.q >= 4 * std.d)
    THEN recommendation \o " - Focus on reducing variability between varieties"
    ELSE recommendation

\* lines 338-340: consider variability
Variability(recommendation, std) ==
    IF StdGt(std, 2)
    THEN recommendation \o " - Focus on reducing variability between varieties"
    ELSE recommendation

\* lines 342-348: the entry appended for one aggregated row
BreedingEntry(stats) ==
    [pathogen |-> stats.pathogen,
     priority |-> Priority(stats.mean),
     recommendation |-> Variability(Message(Priority(stats.mean), stats.pathogen), stats.std),
     current_avg_resistance |->
         IF stats.mean.nan THEN [nan |-> TRUE, hundredths |-> 0]
         ELSE [nan |-> FALSE, hundredths |-> RoundDiv(stats.mean.sum, stats.mean.count)],
     variability |-> IF stats.std.nan THEN 0 ELSE RoundSqrt(stats.std.q, stats.std.d)]

\* lines 351-352
priority_order == [p \in {"High", "Medium", "Low"} |->
                      CASE p = "High" -> 1 [] p = "Medium" -> 2 [] p = "Low" -> 3]

\* the entries left in the order the loop appended them
sort_skipped(recommendations) == recommendations

\* recommendations.sort(key=...): a stable sort on the three ranks
sort(recommendations) ==
    SelectSeq(recommendations, LAMBDA x : priority_order[x.priority] = 1)
    \o SelectSeq(recommendations, LAMBDA x : priority_order[x.priority] = 2)
    \o SelectSeq(recommendations, LAMBDA x : priority_order[x.priority] = 3)

\* lines 323-348: one entry for each aggregated row, in the order of the rows
Entries_of(pathogen_resistance) ==
    [j \in 1..Len(pathogen_resistance) |-> BreedingEntry(pathogen_resistance[j])]

\* resistance_data.empty: no rows or no columns
Empty(frame) == (frame.rows = <<>>) \/ (frame.columns = {})

\* the body of the try block: the returned list, or the exception
get_breeding_try(frame) ==
    IF frame.kind # "frame" THEN [raised |-> TRUE, value |-> <<>>]
    ELSE IF Empty(frame) THEN [raised |-> FALSE, value |-> <<>>]
    ELSE IF ~({"pathogen", "resistance_score"} \subseteq frame.columns)
         THEN [raised |-> TRUE, value |-> <<>>]
         ELSE [raised |-> FALSE, value |-> sort(Entries_of(GroupBy(frame.rows)))]

\* except Exception: return []
ExceptEmpty(body) == IF body.raised THEN [raised |-> FALSE, value |-> <<>>] ELSE body

\* get_breeding_recommendations without the except clause
get_breeding_recommendations_reraise(frame) == get_breeding_try(frame)

get_breeding_recommendations(frame) == ExceptEmpty(get_breeding_try(frame))

(***************************************************************************)
(* The frames a caller may pass to get_breeding_recommendations.           *)
(***************************************************************************)
\* get_breeding_recommendations(None): the argument is no DataFrame
NotAFrame == [kind |-> "none", columns |-> {}, rows |-> <<>>]

ScoreValues == {NoneVal(0)} \cup {PyInt(n) : n \in {3, 4, 5, 6, 8}}

RowValues == [pathogen : {SortedNames[j] : j \in 1..Len(SortedNames)},
              resistance_score : ScoreValues]

RowLists == UNION {[1..n -> RowValues] : n \in 0..MaxRows}

Frames ==
    [kind : {"frame"}, columns : {{"pathogen", "resistance_score"}}, rows : RowLists]
    \cup [kind : {"frame"},
          columns : {{"pathogen"}, {"resistance_score"}},
          rows : {rows \in RowLists : Len(rows) <= 1}]
    \cup {NotAFrame}

(***************************************************************************)
(* The observations a caller may pass to predict.                          *)
(***************************************************************************)
SymptomTags ==
    {"leaf spots", "neck rot", "panicle blast", "sheath blight", "lesions",
     "yellowing", "leaf blight", "wilting", "stunting"}

SymptomValues ==
    {Absent({}), NoneVal({})}
    \cup {PyList(S) : S \in {T \in SUBSET SymptomTags : Cardinality(T) <= MaxSymptoms}}

\* temperatures and humidities are the whole numbers on either side of every
\* bound of a rule or of a favorable range
TemperatureValues ==
    {Absent(0), NoneVal(0)} \cup {PyInt(n) : n \in {19, 20, 24, 30, 31, 32, 33, 34, 35}}

HumidityValues ==
    {Absent(0), NoneVal(0)} \cup {PyInt(n) : n \in {69, 70, 79, 84, 85, 100, 101}}

RainfallValues == {Absent(0), NoneVal(0), PyInt(10), PyInt(11)}

GrowthStageValues ==
    {Absent("")} \cup {PyStr(g) : g \in {"Tillering", "Stem elongation", "Heading",
                                        "Flowering", "Grain filling"}}

SeverityValues == {NoneVal(0), PyInt(6), PyInt(7)}

AffectedAreaValues == {NoneVal(0), PyInt(49), PyInt(50)}

\* predict(None): the argument is not a dictionary at all
NotADict ==
    [kind |-> "none", symptoms |-> Absent({}), temperature |-> Absent(0),
     humidity |-> Absent(0), rainfall |-> Absent(0), growth_stage |-> Absent(""),
     severity |-> Absent(0), affected_area |-> Absent(0)]

\* the fields of an observation that hold None; an observation has at most
\* MaxNone of them
NoneFields(dd) ==
    {f \in {"symptoms", "temperature", "humidity", "rainfall", "severity",
             "affected_area"} : dd[f].k = "none"}

Observations ==
    {dd \in [kind : {"dict"}, symptoms : SymptomValues, temperature : TemperatureValues,
             humidity : HumidityValues, rainfall : RainfallValues,
             growth_stage : GrowthStageValues, severity : SeverityValues,
             affected_area : AffectedAreaValues] :
        Cardinality(NoneFields(dd)) <= MaxNone}
    \cup {NotADict}

(***************************************************************************)
(* The arguments _determine_action may be called with: a risk level and a  *)
(* confidence within MaxUlps doubles of 0.3, 0.6, 0.8 or 0.95.             *)
(***************************************************************************)
RiskLevels == {"High", "Medium", "Low"}

Near(d) == {<<d[1], d[2] + 8 * u>> : u \in (0 - MaxUlps)..MaxUlps}

ConfidenceValues == Near(D03) \cup Near(D06) \cup Near(D08) \cup Near(D095)

NoArgs == [risk_level |-> "", confidence |-> Zero]

(***************************************************************************)
(* The state machine: an engine is constructed and a caller applies        *)
(* predict to an observation.                                              *)
(***************************************************************************)
NoOutcome == [raised |-> FALSE, value |-> <<>>]

\* no call of store_diagnosis was made
NoStored ==
    [diagnosis_data |-> NotADict, prediction_results |-> <<>>, raised |-> FALSE,
     logged |-> ""]

\* the predictor runs without a database manager
NoManager ==
    /\ environ = Absent(0)
    /\ manager = "none"
    /\ attempt = 0
    /\ engine = "unset"
    /\ events = <<>>
    /\ database = <<>>
    /\ stored = NoStored

Init ==
    /\ pathogen_knowledge = initialize_pathogen_knowledge
    /\ diagnosis_data = NotADict
    /\ pc = "idle"
    /\ rule = RuleRaise
    /\ outcome = NoOutcome
    /\ args = NoArgs
    /\ ret = ""
    /\ resistance_data = NotAFrame
    /\ breeding = NoOutcome
    /\ calls = <<>>
    /\ NoManager

Predict ==
    /\ pc = "idle"
    /\ \E dd \in Observations :
          /\ diagnosis_data' = dd
          /\ rule' = rule_based_prediction(dd)
          /\ outcome' = predict(pathogen_knowledge, dd)
    /\ pc' = "returned"
    /\ UNCHANGED <<pathogen_knowledge, args, ret, resistance_data, breeding, calls>>
    /\ UNCHANGED managervars

Next == Predict

Spec == Init /\ [][Next]_vars

(***************************************************************************)
(* _determine_action as a function of its own: the arguments are drawn     *)
(* from RiskLevels and ConfidenceValues and the function is applied.       *)
(***************************************************************************)
InitAction ==
    /\ pathogen_knowledge = initialize_pathogen_knowledge
    /\ diagnosis_data = NotADict
    /\ pc = "idle"
    /\ rule = RuleRaise
    /\ outcome = NoOutcome
    /\ args \in [risk_level : RiskLevels, confidence : ConfidenceValues]
    /\ ret = ""
    /\ resistance_data = NotAFrame
    /\ breeding = NoOutcome
    /\ calls = <<>>
    /\ NoManager

DetermineAction ==
    /\ pc = "idle"
    /\ pc' = "returned"
    /\ ret' = determine_action(args.risk_level, args.confidence)
    /\ UNCHANGED <<pathogen_knowledge, diagnosis_data, rule, outcome, args,
                   resistance_data, breeding, calls>>
    /\ UNCHANGED managervars

NextAction == DetermineAction

SpecAction == InitAction /\ [][NextAction]_vars

(***************************************************************************)
(* get_breeding_recommendations applied to a frame.                        *)
(***************************************************************************)
GetBreedingRecommendations ==
    /\ pc = "idle"
    /\ \E frame \in Frames :
          /\ resistance_data' = frame
          /\ breeding' = get_breeding_recommendations(frame)
    /\ pc' = "returned"
    /\ UNCHANGED <<pathogen_knowledge, diagnosis_data, rule, outcome, args, ret, calls>>
    /\ UNCHANGED managervars

NextBreeding == GetBreedingRecommendations

SpecBreeding == Init /\ [][NextBreeding]_vars

(***************************************************************************)
(* A sequence of at most MaxCalls calls on one engine, each predict or     *)
(* get_breeding_recommendations.  calls records every call with the        *)
(* argument passed and the value returned; diagnosis_data and              *)
(* resistance_data are the caller's objects after the call.                *)
(***************************************************************************)
SeqObservations ==
    [kind : {"dict"},
     symptoms : {PyList({"leaf blight"}), PyList({})},
     temperature : {PyInt(30), PyInt(35)},
     humidity : {PyInt(85)},
     rainfall : {PyInt(11)},
     growth_stage : {PyStr("Flowering"), Absent("")},
     severity : {PyInt(7), NoneVal(0)},
     affected_area : {PyInt(50)}]
    \cup {NotADict}

SeqFrames ==
    {NotAFrame,
     [kind |-> "frame", columns |-> {"pathogen", "resistance_score"},
      rows |-> <<[pathogen |-> "B", resistance_score |-> PyInt(3)],
                 [pathogen |-> "A", resistance_score |-> PyInt(8)]>>],
     [kind |-> "frame", columns |-> {"pathogen"},
      rows |-> <<[pathogen |-> "A", resistance_score |-> NoneVal(0)]>>]}

PredictCall ==
    /\ Len(calls) < MaxCalls
    /\ \E dd \in SeqObservations :
          /\ diagnosis_data' = dd
          /\ rule' = rule_based_prediction(dd)
          /\ outcome' = predict(pathogen_knowledge, dd)
          /\ pathogen_knowledge' =
                 knowledge_after(pathogen_knowledge, predict_try(pathogen_knowledge, dd), dd)
          /\ calls' = Append(calls, [op |-> "predict", passed |-> dd,
                                     returned |-> predict(pathogen_knowledge, dd)])
    /\ UNCHANGED <<pc, args, ret, resistance_data, breeding>>
    /\ UNCHANGED managervars

BreedingCall ==
    /\ Len(calls) < MaxCalls
    /\ \E frame \in SeqFrames :
          /\ resistance_data' = frame
          /\ breeding' = get_breeding_recommendations(frame)
          /\ calls' = Append(calls, [op |-> "get_breeding_recommendations", passed |-> frame,
                                     returned |-> get_breeding_recommendations(frame)])
    /\ UNCHANGED <<pathogen_knowledge, diagnosis_data, pc, rule, outcome, args, ret>>
    /\ UNCHANGED managervars

NextCalls == PredictCall \/ BreedingCall

SpecCalls == Init /\ [][NextCalls]_vars

(***************************************************************************)
(* predict applied to the observation of the worked scenario and to the    *)
(* observations that differ from it in some fields.                        *)
(***************************************************************************)
Scenario ==
    [kind |-> "dict",
     symptoms |-> PyList({"leaf blight", "wilting"}),
     temperature |-> PyInt(30),
     humidity |-> PyInt(75),
     rainfall |-> PyInt(15),
     growth_stage |-> PyStr("Tillering"),
     severity |-> PyInt(8),
     affected_area |-> PyInt(60)]

ScenarioObservations ==
    [kind : {"dict"},
     symptoms : {PyList(S) : S \in SUBSET {"leaf blight", "wilting"}},
     temperature : {PyInt(30), PyInt(35)},
     humidity : {PyInt(75), PyInt(65)},
     rainfall : {PyInt(15), PyInt(5)},
     growth_stage : {PyStr("Tillering"), PyStr("Heading")},
     severity : {PyInt(8), PyInt(5)},
     affected_area : {PyInt(60), PyInt(40)}]

PredictScenario ==
    /\ pc = "idle"
    /\ \E dd \in ScenarioObservations :
          /\ diagnosis_data' = dd
          /\ rule' = rule_based_prediction(dd)
          /\ outcome' = predict(pathogen_knowledge, dd)
    /\ pc' = "returned"
    /\ UNCHANGED <<pathogen_knowledge, args, ret, resistance_data, breeding, calls>>
    /\ UNCHANGED managervars

NextScenario == PredictScenario

SpecScenario == Init /\ [][NextScenario]_vars

(***************************************************************************)
(* _enhance_prediction as a function of its own: it composes the risk      *)
(* calculator with the action determiner for a result of the rule stage    *)
(* and an observation, both drawn from the sets below.                     *)
(***************************************************************************)
EnhanceConfidences == {D03, D04, D05} \cup Near(D06)

EnhanceResults ==
    [pathogen : {"Magnaporthe oryzae", "Rhizoctonia solani", "Xanthomonas oryzae", "Unknown"},
     confidence : EnhanceConfidences]

EnhanceObservations ==
    [kind : {"dict"},
     symptoms : {PyList({})},
     temperature : {PyInt(19), PyInt(30), PyInt(35)},
     humidity : {PyInt(69), PyInt(85)},
     rainfall : {PyInt(0)},
     growth_stage : {PyStr("Tillering")},
     severity : {PyInt(6), PyInt(7)},
     affected_area : {PyInt(49), PyInt(50)}]

InitEnhance ==
    /\ pathogen_knowledge = initialize_pathogen_knowledge
    /\ diagnosis_data \in EnhanceObservations
    /\ pc = "idle"
    /\ rule = RuleRaise
    /\ outcome = NoOutcome
    /\ args \in EnhanceResults
    /\ ret = NoOutcome
    /\ resistance_data = NotAFrame
    /\ breeding = NoOutcome
    /\ calls = <<>>
    /\ NoManager

EnhancePrediction ==
    /\ pc = "idle"
    /\ pc' = "returned"
    /\ ret' = enhance_prediction(pathogen_knowledge, args, diagnosis_data)
    /\ UNCHANGED <<pathogen_knowledge, diagnosis_data, rule, outcome, args,
                   resistance_data, breeding, calls>>
    /\ UNCHANGED managervars

NextEnhance == EnhancePrediction

SpecEnhance == InitEnhance /\ [][NextEnhance]_vars

(***************************************************************************)
(* A caller that keeps the list predict returned and writes to it between  *)
(* calls.  The favorable_conditions and typical_symptoms of a returned     *)
(* prediction are the objects pathogen_info.get returned (lines 203-204):  *)
(* the profile's own dictionary and list when the pathogen has a profile,  *)
(* the fresh default otherwise.  A write through such a reference is a     *)
(* write to the knowledge base.                                            *)
(***************************************************************************)
\* d[key] = value on a dictionary
SetKey(d, key, value) ==
    [k \in DOMAIN d \cup {key} |-> IF k = key THEN value ELSE d[k]]

\* the key of the profile whose object the field of a returned prediction is
ProfileKey(field) ==
    CASE field = "favorable_conditions" -> "favorable_conditions"
      [] field = "typical_symptoms" -> "symptoms"

\* prediction[field] after the caller's write: a new temperature range or
\* one more symptom
WrittenTo(object, field) ==
    CASE field = "favorable_conditions" -> SetKey(object, "temperature", <<0, 0>>)
      [] field = "typical_symptoms" -> Append(object, "mold")

\* the knowledge base after the caller's write to a field of a returned
\* prediction of the pathogen
knowledge_after_write(kb, pathogen, field) ==
    IF pathogen \in DOMAIN kb
    THEN [kb EXCEPT ![pathogen] =
             SetKey(@, ProfileKey(field), WrittenTo(@[ProfileKey(field)], field))]
    ELSE kb

WriteToReturned ==
    /\ Len(calls) < MaxCalls
    /\ \E i \in DOMAIN outcome.value :
       \E field \in {"favorable_conditions", "typical_symptoms"} :
          /\ outcome' = [outcome EXCEPT !.value[i] =
                            SetKey(@, field, WrittenTo(@[field], field))]
          /\ pathogen_knowledge' =
                 knowledge_after_write(pathogen_knowledge, outcome.value[i].pathogen, field)
          /\ calls' = Append(calls, [op |-> "write", passed |-> <<i, field>>,
                                     returned |-> NoOutcome])
    /\ UNCHANGED <<diagnosis_data, pc, rule, args, ret, resistance_data, breeding>>
    /\ UNCHANGED managervars

NextShared == PredictCall \/ WriteToReturned

SpecShared == Init /\ [][NextShared]_vars

(***************************************************************************)
(* predict applied twice by a caller: to an observation that may omit      *)
(* fields, and to the same observation with every omitted numeric field    *)
(* written out.                                                            *)
(***************************************************************************)
DefaultObservations ==
    [kind : {"dict"},
     symptoms : {PyList({}), PyList({"leaf blight"})},
     temperature : {Absent(0), PyInt(25), PyInt(30)},
     humidity : {Absent(0), PyInt(80), PyInt(85)},
     rainfall : {Absent(0), PyInt(0), PyInt(11)},
     growth_stage : {Absent(""), PyStr("Flowering")},
     severity : {Absent(0), PyInt(5), PyInt(7)},
     affected_area : {Absent(0), PyInt(25), PyInt(50)}]

\* the field, or the value written out when the observation omits it
Written(dd, field, value) == IF dd[field].k = "absent" THEN PyInt(value) ELSE dd[field]

\* the observation with temperature 25, humidity 80, rainfall 0, severity 5
\* and affected area 25 written out where it omits them
WrittenOut(dd) ==
    [dd EXCEPT !.temperature = Written(dd, "temperature", 25),
               !.humidity = Written(dd, "humidity", 80),
               !.rainfall = Written(dd, "rainfall", 0),
               !.severity = Written(dd, "severity", 5),
               !.affected_area = Written(dd, "affected_area", 25)]

InitDefaults ==
    /\ pathogen_knowledge = initialize_pathogen_knowledge
    /\ diagnosis_data \in DefaultObservations
    /\ pc = "idle"
    /\ rule = RuleRaise
    /\ outcome = NoOutcome
    /\ args = NoArgs
    /\ ret = NoOutcome
    /\ resistance_data = NotAFrame
    /\ breeding = NoOutcome
    /\ calls = <<>>
    /\ NoManager

PredictWrittenOut ==
    /\ pc = "idle"
    /\ pc' = "returned"
    /\ rule' = rule_based_prediction(diagnosis_data)
    /\ outcome' = predict(pathogen_knowledge, diagnosis_data)
    /\ args' = WrittenOut(diagnosis_data)
    /\ ret' = predict(pathogen_knowledge, WrittenOut(diagnosis_data))
    /\ UNCHANGED <<pathogen_knowledge, diagnosis_data, resistance_data, breeding, calls>>
    /\ UNCHANGED managervars

NextDefaults == PredictWrittenOut

SpecDefaults == InitDefaults /\ [][NextDefaults]_vars

(***************************************************************************)
(* The CHECK constraints of the diagnoses table on the two columns a       *)
(* prediction fills.                                                       *)
(***************************************************************************)
D10 == <<134217728, 0>>

\* CHECK (confidence_score BETWEEN 0 AND 1)
CheckConfidenceScore(confidence_score) ==
    FGe(confidence_score, Zero) /\ FGe(D10, confidence_score)

\* CHECK (risk_level IN ('Low', 'Medium', 'High'))
CheckRiskLevel(risk_level) == risk_level \in {"Low", "Medium", "High"}

(***************************************************************************)
(* The database manager of database/db_manager.py (class DatabaseManager). *)
(* The PostgreSQL server is the environment: every operation that reaches  *)
(* it may fail.  database is the sequence of committed rows, a row being   *)
(* [table, sample, item]: the table, the sample_id the row belongs to (""   *)
(* for a catalogue row) and the name it holds.                             *)
(***************************************************************************)
\* self.max_retries = 3
max_retries == 3

\* the decimal digits int() reads
Digits == <<"0", "1", "2", "3", "4", "5", "6", "7", "8", "9">>

DigitValue(c) == CHOOSE d \in 0..9 : Digits[d + 1] = c

IsDigit(c) == \E d \in 0..9 : Digits[d + 1] = c

RECURSIVE IntOf(_)
\* the value of a string of decimal digits, the string given as its characters
IntOf(s) ==
    IF s = <<>> THEN 0
    ELSE 10 * IntOf(SubSeq(s, 1, Len(s) - 1)) + DigitValue(s[Len(s)])

\* int(value): an int is returned as it is, a string of digits is read,
\* any other string raises ValueError
ParseInt(value) ==
    IF value.k = "int" THEN [raised |-> FALSE, value |-> value.v]
    ELSE IF (value.v # <<>>) /\ (\A i \in DOMAIN value.v : IsDigit(value.v[i]))
         THEN [raised |-> FALSE, value |-> IntOf(value.v)]
         ELSE [raised |-> TRUE, value |-> 0]

\* int(os.getenv('POSTGRES_PORT', port)) with the default port=5432
Port(env) == ParseInt(IF env.k = "absent" THEN PyInt(5432) ELSE env)

Row(table, sample, item) == [table |-> table, sample |-> sample, item |-> item]

\* the rows the schema script inserts: ON CONFLICT (name) DO NOTHING keeps a
\* variety or a pathogen that is already there; locations has no unique
\* column, so its three rows are inserted every time
SeedNames ==
    <<Row("rice_varieties", "", "IR64"), Row("rice_varieties", "", "PSB Rc82"),
      Row("rice_varieties", "", "NSIC Rc222"),
      Row("pathogens", "", "Magnaporthe oryzae"),
      Row("pathogens", "", "Rhizoctonia solani"),
      Row("pathogens", "", "Xanthomonas oryzae"),
      Row("locations", "", "Field A"), Row("locations", "", "Field B"),
      Row("locations", "", "Field C")>>

Holds(rows, row) == \E i \in DOMAIN rows : rows[i] = row

\* _initialize_schema: the script runs and is committed as a whole, and a
\* failure is swallowed
initialize_schema(db, ok) ==
    IF ~ok THEN db
    ELSE db \o SelectSeq(SeedNames,
                         LAMBDA row : (row.table = "locations") \/ ~Holds(db, row))

\* check_connection: False without an engine, else whether SELECT 1 succeeds
check_connection(eng, reachable) == IF eng = "None" THEN FALSE ELSE reachable

(***************************************************************************)
(* One transaction on a psycopg2 connection: rows holds the rows inserted  *)
(* and not yet committed, fault the number of the INSERT the server fails  *)
(* (0: none), raised whether an exception is propagating.                   *)
(***************************************************************************)
\* psycopg2.connect(...) in get_connection
Connect(net) ==
    [raised |-> net.at = "connect", committed |-> FALSE, rows |-> <<>>,
     fault |-> IF net.at = "execute" THEN net.n ELSE 0]

\* cursor.execute of an INSERT: the statement fails on a violated constraint
\* or on a failure of the server, else its row joins the transaction
Execute(txn, row, violates) ==
    IF txn.raised THEN txn
    ELSE IF violates \/ (Len(txn.rows) + 1 = txn.fault)
         THEN [txn EXCEPT !.raised = TRUE]
         ELSE [txn EXCEPT !.rows = Append(@, row)]

\* diagnosis_data[key]: KeyError when the key is missing
Subscript(txn, dd, key) ==
    IF txn.raised \/ (dd[key].k # "absent") THEN txn
    ELSE [txn EXCEPT !.raised = TRUE]

\* SELECT id ... WHERE name = %s, then INSERT ... RETURNING id when no row
\* was found; the SELECT sees the rows of the transaction itself
GetOrCreate(db, txn, table, name) ==
    IF txn.raised \/ Holds(db \o txn.rows, Row(table, "", name)) THEN txn
    ELSE Execute(txn, Row(table, "", name), FALSE)

get_or_create_location(db, txn, location_name) ==
    GetOrCreate(db, txn, "locations", location_name)

get_or_create_variety(db, txn, variety_name) ==
    GetOrCreate(db, txn, "rice_varieties", variety_name)

get_or_create_pathogen(db, txn, pathogen_name) ==
    GetOrCreate(db, txn, "pathogens", pathogen_name)

get_or_create_symptom(db, txn, symptom_name) ==
    GetOrCreate(db, txn, "symptoms", symptom_name)

\* sample_id VARCHAR(50) UNIQUE NOT NULL
UniqueSampleId(db, txn, sample_id) ==
    ~Holds(db \o txn.rows, Row("samples", sample_id, sample_id))

\* INSERT INTO samples (...) RETURNING id
InsertSampleRow(db, txn, sample_id) ==
    IF txn.raised THEN txn
    ELSE Execute(txn, Row("samples", sample_id, sample_id),
                 ~UniqueSampleId(db, txn, sample_id))

\* _insert_sample
insert_sample(db, txn, dd) ==
    InsertSampleRow(db,
        Subscript(
            get_or_create_variety(db,
                Subscript(
                    get_or_create_location(db, Subscript(txn, dd, "location"),
                                           dd.location.v),
                    dd, "rice_variety"),
                dd.rice_variety.v),
            dd, "sample_id"),
        dd.sample_id.v)

\* _insert_environmental_conditions
insert_environmental_conditions(txn, sample_id) ==
    Execute(txn, Row("environmental_conditions", sample_id, ""), FALSE)

RECURSIVE insert_sample_symptoms(_, _, _, _)
\* _insert_sample_symptoms: for symptom_name in symptoms
insert_sample_symptoms(db, txn, sample_id, symptoms) ==
    IF symptoms = <<>> THEN txn
    ELSE insert_sample_symptoms(db,
             Execute(get_or_create_symptom(db, txn, Head(symptoms)),
                     Row("sample_symptoms", sample_id, Head(symptoms)), FALSE),
             sample_id, Tail(symptoms))

\* CHECK (severity BETWEEN 1 AND 10)
CheckSeverity(severity) == severity \in 1..10

\* the CHECK constraints of a diagnoses row
CheckDiagnosis(result, severity) ==
    /\ CheckConfidenceScore(result.confidence)
    /\ CheckRiskLevel(result.risk_level)
    /\ CheckSeverity(severity)

RECURSIVE insert_diagnoses(_, _, _, _, _)
\* for result in prediction_results: the pathogen, then the diagnoses row
\* with diagnosis_data.get('severity', 5)
insert_diagnoses(db, txn, sample_id, severity, prediction_results) ==
    IF prediction_results = <<>> THEN txn
    ELSE insert_diagnoses(db,
             Execute(get_or_create_pathogen(db, txn, Head(prediction_results).pathogen),
                     Row("diagnoses", sample_id, Head(prediction_results).pathogen),
                     ~CheckDiagnosis(Head(prediction_results), severity)),
             sample_id, severity, Tail(prediction_results))

\* conn.commit()
Commit(txn, net) ==
    IF txn.raised THEN txn
    ELSE IF net.at = "commit" THEN [txn EXCEPT !.raised = TRUE]
         ELSE [txn EXCEPT !.committed = TRUE]

\* the body of "with self.get_connection() as conn" in store_diagnosis
Transaction(db, dd, prediction_results, net) ==
    Commit(
        insert_diagnoses(db,
            insert_sample_symptoms(db,
                insert_environmental_conditions(
                    insert_sample(db, Connect(net), dd), dd.sample_id.v),
                dd.sample_id.v,
                IF dd.symptoms.k = "absent" THEN <<>> ELSE dd.symptoms.v),
            dd.sample_id.v,
            IF dd.severity.k = "absent" THEN 5 ELSE dd.severity.v,
            prediction_results),
        net)

\* what a transaction leaves on the server once the connection is closed:
\* all of its rows when it was committed, none when it was rolled back
Persist_autocommit(db, txn) == db \o txn.rows

Persist(db, txn) == IF txn.committed THEN db \o txn.rows ELSE db

\* the end of store_diagnosis: logger.info after the commit, and
\* "except Exception as e: self.logger.error(...)" for whatever was raised
Stored(db, txn) ==
    [database |-> Persist(db, txn), raised |-> FALSE,
     logged |-> IF txn.committed THEN "info" ELSE "error"]

\* store_diagnosis
store_diagnosis(eng, db, dd, prediction_results, net) ==
    IF ~check_connection(eng, net.at # "check")
    THEN [database |-> db, raised |-> FALSE, logged |-> "warning"]
    ELSE Stored(db, Transaction(db, dd, prediction_results, net))

\* if attempt < self.max_retries - 1: time.sleep(self.retry_delay)  else: raise
Retry_inclusive(at) == at < max_retries

Retry(at) == at < max_retries - 1

(***************************************************************************)
(* The inputs of the database manager.                                     *)
(***************************************************************************)
MaxFault == 5

\* POSTGRES_PORT: unset, a number, not a number
PortValues == {Absent(0), PyStr(<<"5", "4", "3", "3">>), PyStr(<<"a", "b">>)}

SampleIds == {"S1", "S2"}

\* a complete sample, one without its location, one of severity 11
StoreData ==
    {[sample_id |-> PyStr(id), location |-> PyStr("Field A"),
      rice_variety |-> PyStr("IR64"), symptoms |-> PyList(<<"lesions">>),
      severity |-> Absent(0)] : id \in SampleIds}
    \cup {[sample_id |-> PyStr(id), location |-> Absent(0),
           rice_variety |-> PyStr("IR64"), symptoms |-> Absent(0),
           severity |-> Absent(0)] : id \in SampleIds}
    \cup {[sample_id |-> PyStr(id), location |-> PyStr("Field A"),
           rice_variety |-> PyStr("IR64"), symptoms |-> Absent(0),
           severity |-> PyInt(11)] : id \in SampleIds}

BlastResult == [pathogen |-> "Magnaporthe oryzae", confidence |-> D08, risk_level |-> "High"]

UnknownResult == [pathogen |-> "Unknown", confidence |-> D03, risk_level |-> "Low"]

StoreResults == {<<>>, <<BlastResult>>, <<BlastResult, UnknownResult>>}

\* where the server fails during a call of store_diagnosis: nowhere, at the
\* SELECT 1 of check_connection, at psycopg2.connect, at the n-th INSERT, at
\* the commit
Nets ==
    {[at |-> a, n |-> 0] : a \in {"none", "check", "connect", "commit"}}
    \cup {[at |-> "execute", n |-> k] : k \in 1..MaxFault}

(***************************************************************************)
(* The manager as a state machine: the constructor runs step by step, and  *)
(* the constructed manager stores diagnoses.  events records the attempts   *)
(* and the waits of the constructor.                                       *)
(***************************************************************************)
InitDatabase ==
    /\ pathogen_knowledge = initialize_pathogen_knowledge
    /\ diagnosis_data = NotADict
    /\ pc = "idle"
    /\ rule = RuleRaise
    /\ outcome = NoOutcome
    /\ args = NoArgs
    /\ ret = ""
    /\ resistance_data = NotAFrame
    /\ breeding = NoOutcome
    /\ calls = <<>>
    /\ environ \in PortValues
    /\ manager = "new"
    /\ attempt = 0
    /\ engine = "unset"
    /\ events = <<>>
    /\ database = <<>>
    /\ stored = NoStored

predictorvars ==
    <<pathogen_knowledge, diagnosis_data, pc, rule, outcome, args, ret,
      resistance_data, breeding, calls>>

\* __init__ up to the try: the connection parameters are read, and int()
\* raises out of the constructor when POSTGRES_PORT is not a number
Configure ==
    /\ manager = "new"
    /\ manager' = IF Port(environ).raised THEN "raised" ELSE "connecting"
    /\ UNCHANGED <<environ, attempt, engine, events, database, stored>>
    /\ UNCHANGED predictorvars

\* one pass of the loop of _create_engine_with_retry.  A successful attempt
\* returns the engine, __init__ runs _initialize_schema and is done.  A
\* failed attempt is followed by the wait, or, the last one, re-raised to
\* __init__, which sets the engine to None
Attempt ==
    /\ manager = "connecting"
    /\ \E reachable \in BOOLEAN, schema \in BOOLEAN :
          IF reachable
          THEN /\ events' = Append(events, "connected")
               /\ engine' = "engine"
               /\ database' = initialize_schema(database, schema)
               /\ manager' = "constructed"
          ELSE /\ events' = Append(events, "failed")
               /\ engine' = IF Retry(attempt) THEN engine ELSE "None"
               /\ manager' = IF Retry(attempt) THEN "sleeping" ELSE "constructed"
               /\ UNCHANGED database
    /\ UNCHANGED <<environ, attempt, stored>>
    /\ UNCHANGED predictorvars

\* time.sleep(self.retry_delay), and the loop goes on to the next attempt
Sleep ==
    /\ manager = "sleeping"
    /\ events' = Append(events, "sleep")
    /\ attempt' = attempt + 1
    /\ manager' = "connecting"
    /\ UNCHANGED <<environ, engine, database, stored>>
    /\ UNCHANGED predictorvars

\* the state after a call of store_diagnosis
Call(dd, prediction_results, result) ==
    /\ database' = result.database
    /\ stored' = [diagnosis_data |-> dd, prediction_results |-> prediction_results,
                  raised |-> result.raised, logged |-> result.logged]

StoreDiagnosis ==
    /\ manager = "constructed"
    /\ \E dd \in StoreData, prediction_results \in StoreResults, net \in Nets :
          Call(dd, prediction_results,
               store_diagnosis(engine, database, dd, prediction_results, net))
    /\ UNCHANGED <<environ, manager, attempt, engine, events>>
    /\ UNCHANGED predictorvars

NextDatabase == Configure \/ Attempt \/ Sleep \/ StoreDiagnosis

\* the constructor runs to its end: no step of it waits for the caller
SpecDatabase ==
    InitDatabase /\ [][NextDatabase]_vars /\ WF_vars(Configure \/ Attempt \/ Sleep)

(***************************************************************************)
(* Vocabulary of the properties, stated on the observation itself.         *)
(***************************************************************************)
Returned == pc = "returned"

KnownPathogens == <<"Magnaporthe oryzae", "Rhizoctonia solani", "Xanthomonas oryzae">>

\* the value of a field of the observation, an absent field taking its documented default
Eff(field, default) ==
    IF diagnosis_data[field].k = "absent" THEN default ELSE diagnosis_data[field].v

\* some field of the observation has an unexpected kind, or the observation is no dictionary
Malformed ==
    \/ diagnosis_data.kind # "dict"
    \/ diagnosis_data.symptoms.k = "none"
    \/ diagnosis_data.temperature.k = "none"
    \/ diagnosis_data.humidity.k = "none"
    \/ diagnosis_data.rainfall.k = "none"
    \/ diagnosis_data.severity.k = "none"
    \/ diagnosis_data.affected_area.k = "none"

\* a double rounded to a whole number of hundredths
Hundredths(x) == ((x[1] \div 128) * 100 + 524288) \div 1048576

\* 1 when the rule fires, 0 otherwise
Fires(b) == IF b THEN 1 ELSE 0

ScoreOf(p) ==
    CASE p = "Magnaporthe oryzae" -> rule.blast_score
      [] p = "Rhizoctonia solani" -> rule.blight_score
      [] p = "Xanthomonas oryzae" -> rule.bacterial_score

Qualifies(p) == FGt(ScoreOf(p), D05)

NoneQualifies == \A j \in 1..3 : ~Qualifies(KnownPathogens[j])

Entries == {outcome.value[i] : i \in 1..Len(outcome.value)}

SymptomsObserved == Eff("symptoms", {})

\* C1: predict never raises to its caller and always returns a list with at
\* least one element, for every observation, malformed ones included.
C1_NeverRaisesNonEmpty ==
    Returned => (~outcome.raised /\ Len(outcome.value) >= 1)

C1_Witness ==
    /\ Returned
    /\ diagnosis_data.kind = "dict"
    /\ diagnosis_data.temperature.k = "none"
    /\ rule.raised
    /\ ~outcome.raised
    /\ Len(outcome.value) = 1

\* C2: for each known pathogen the raw score of the rule stage is the sum of
\* its four independent contributions, 0.4 for a symptom match and 0.2 for
\* each of the three other rules, with inclusive temperature bounds and a
\* strict rainfall bound.
C2_ScoreIsSumOfContributions ==
    (Returned /\ ~rule.raised) =>
        LET t == Eff("temperature", 25)
            h == Eff("humidity", 80)
            r == Eff("rainfall", 0)
            g == Eff("growth_stage", "")
            sy == SymptomsObserved
        IN  /\ Hundredths(rule.blast_score) =
                  40 * Fires(sy \cap {"leaf spots", "neck rot", "panicle blast"} # {})
                + 20 * Fires(t \in 20..30)
                + 20 * Fires(h >= 85)
                + 20 * Fires(g \in {"Heading", "Flowering"})
            /\ Hundredths(rule.blight_score) =
                  40 * Fires(sy \cap {"sheath blight", "lesions", "yellowing"} # {})
                + 20 * Fires(t \in 25..32)
                + 20 * Fires(h >= 80)
                + 20 * Fires(g \in {"Tillering", "Stem elongation"})
            /\ Hundredths(rule.bacterial_score) =
                  40 * Fires(sy \cap {"leaf blight", "yellowing", "wilting"} # {})
                + 20 * Fires(t \in 25..34)
                + 20 * Fires(h >= 70)
                + 20 * Fires(r > 10)

C2_Witness ==
    /\ Returned
    /\ ~rule.raised
    /\ Hundredths(rule.blast_score) = 60
    /\ Hundredths(rule.blight_score) = 40
    /\ Hundredths(rule.bacterial_score) = 100
    /\ Eff("temperature", 25) = 30
    /\ Eff("rainfall", 0) = 11

\* C3: when the call does not fail, a known pathogen is in the output as a
\* rule-derived candidate if and only if its raw score strictly exceeds 0.5
\* (0.4 or less never qualifies), its confidence is then min(rawScore, 0.95),
\* and when all four Magnaporthe rules fire the output has Magnaporthe
\* oryzae with confidence 0.95.
C3_CandidateIffScoreAboveHalf ==
    (Returned /\ ~Malformed) =>
        /\ \A j \in 1..3 :
            LET p == KnownPathogens[j]
                rows == {i \in 1..Len(outcome.value) : outcome.value[i].pathogen = p}
            IN  /\ Qualifies(p) \/ Hundredths(ScoreOf(p)) <= 40
                /\ Qualifies(p) =>
                      /\ Cardinality(rows) = 1
                      /\ \A i \in rows :
                            outcome.value[i].confidence = FMin(ScoreOf(p), D095)
                /\ ~Qualifies(p) =>
                      \/ rows = {}
                      \/ /\ NoneQualifies
                         /\ p = "Magnaporthe oryzae"
                         /\ SymptomsObserved # {}
        /\ ( /\ SymptomsObserved \cap {"leaf spots", "neck rot", "panicle blast"} # {}
             /\ Eff("temperature", 25) \in 20..30
             /\ Eff("humidity", 80) >= 85
             /\ Eff("growth_stage", "") \in {"Heading", "Flowering"} )
           => \E e \in Entries : e.pathogen = "Magnaporthe oryzae" /\ e.confidence = D095

C3_Witness ==
    /\ Returned
    /\ ~Malformed
    /\ Hundredths(rule.blast_score) = 100
    /\ Hundredths(rule.blight_score) = 40
    /\ Qualifies("Xanthomonas oryzae")
    /\ Len(outcome.value) = 2
    /\ outcome.value[1].pathogen = "Magnaporthe oryzae"
    /\ outcome.value[1].confidence = D095

\* C4: for every well-formed observation with non-empty symptoms for which
\* no pathogen's raw score exceeds 0.5, predict returns exactly one
\* prediction, Magnaporthe oryzae with confidence 0.6.
C4_SymptomFallback ==
    (Returned /\ ~Malformed /\ SymptomsObserved # {} /\ NoneQualifies) =>
        /\ Len(outcome.value) = 1
        /\ outcome.value[1].pathogen = "Magnaporthe oryzae"
        /\ outcome.value[1].confidence = D06

C4_Witness ==
    /\ Returned
    /\ ~Malformed
    /\ SymptomsObserved = {"yellowing"}
    /\ NoneQualifies
    /\ Len(outcome.value) = 1
    /\ outcome.value[1].pathogen = "Magnaporthe oryzae"
    /\ outcome.value[1].confidence = D06

\* C5: for every well-formed observation with empty symptoms for which no
\* pathogen qualifies as a candidate, predict returns exactly one prediction,
\* "Unknown" with confidence 0.3.
C5_UnknownFallback ==
    (Returned /\ ~Malformed /\ SymptomsObserved = {} /\ NoneQualifies) =>
        /\ Len(outcome.value) = 1
        /\ outcome.value[1].pathogen = "Unknown"
        /\ outcome.value[1].confidence = D03

C5_Witness ==
    /\ Returned
    /\ ~Malformed
    /\ diagnosis_data.symptoms.k = "list"
    /\ SymptomsObserved = {}
    /\ rule.blast_score = Zero
    /\ rule.blight_score = Zero
    /\ rule.bacterial_score = Zero
    /\ Len(outcome.value) = 1
    /\ outcome.value[1].pathogen = "Unknown"

\* C6: on any failure inside rule evaluation or enhancement predict returns
\* exactly one element, the fixed fallback prediction, and none of the
\* predictions computed before the failure.
C6_FailureGivesFixedFallback ==
    (Returned /\ Malformed) =>
        outcome.value =
            <<[pathogen |-> "Unknown Pathogen",
               common_name |-> "Unknown Disease",
               pathogen_type |-> "Unknown",
               confidence |-> D03,
               risk_level |-> "Medium",
               action |-> "Laboratory Analysis Needed",
               recommendations |-> <<"Submit sample for laboratory analysis",
                                     "Monitor field conditions closely",
                                     "Apply general fungicide as precaution",
                                     "Consult agricultural extension officer">>,
               favorable_conditions |-> EmptyDict,
               typical_symptoms |-> <<>>]>>

C6_Witness ==
    /\ Returned
    /\ ~rule.raised
    /\ Len(rule.predictions) = 3
    /\ diagnosis_data.severity.k = "none"
    /\ Len(outcome.value) = 1
    /\ outcome.value[1].pathogen = "Unknown Pathogen"

\* the profile of a pathogen, as the data model describes it
HasProfile(p) == p \in DOMAIN pathogen_knowledge

\* the number of risk bonuses the observation earns for the pathogen of a prediction
Bonuses(p) ==
    LET fc == pathogen_knowledge[p].favorable_conditions
    IN    (IF HasProfile(p)
           THEN Fires(Eff("temperature", 25) \in fc.temperature[1]..fc.temperature[2])
                + Fires(Eff("humidity", 80) \in fc.humidity[1]..fc.humidity[2])
           ELSE 0)
        + Fires(Eff("severity", 5) >= 7)
        + Fires(Eff("affected_area", 25) >= 50)

\* C7: riskLevel is classified from baseRisk = confidence + 0.1 per bonus that
\* applies, without clipping: High iff baseRisk >= 0.8, Medium iff
\* 0.6 <= baseRisk < 0.8, Low iff baseRisk < 0.6.
C7_RiskFromBaseRisk ==
    (Returned /\ ~Malformed) =>
        \A e \in Entries :
            LET baseRisk == Hundredths(e.confidence) + 10 * Bonuses(e.pathogen)
            IN  /\ (e.risk_level = "High") <=> (baseRisk >= 80)
                /\ (e.risk_level = "Medium") <=> (60 <= baseRisk /\ baseRisk < 80)
                /\ (e.risk_level = "Low") <=> (baseRisk < 60)

\* C8: the action is a total function of (riskLevel, confidence): High with
\* confidence >= 0.8 gives "Immediate Treatment", High with
\* 0.6 <= confidence < 0.8 gives "Urgent Monitoring", Medium gives
\* "Preventive Action", and Low or High with confidence < 0.6 gives
\* "Monitor & Observe".
C8_ActionTable ==
    Returned =>
        LET risk == args.risk_level
            conf == args.confidence
        IN  /\ (risk = "High" /\ FGe(conf, D08)) => ret = "Immediate Treatment"
            /\ (risk = "High" /\ FGe(conf, D06) /\ FLt(conf, D08)) => ret = "Urgent Monitoring"
            /\ (risk = "Medium") => ret = "Preventive Action"
            /\ (risk = "Low" \/ (risk = "High" /\ FLt(conf, D06))) => ret = "Monitor & Observe"

C8_Witness ==
    /\ Returned
    /\ args.risk_level = "High"
    /\ FLt(args.confidence, D06)
    /\ FGt(args.confidence, D03)
    /\ ret = "Monitor & Observe"

\* the first five entries of a list, in their order
FirstFive(list) == [i \in 1..(IF Len(list) > 5 THEN 5 ELSE Len(list)) |-> list[i]]

\* C9: the recommendations are the profile's management actions in order
\* (none without a profile), preceded by the severity item when
\* severity >= 7, followed by the grain-infection item when the growth stage
\* is Flowering or Grain filling, then by the ventilation item when
\* humidity >= 85, cut to the first 5 entries in that order.
C9_RecommendationOrder ==
    (Returned /\ ~Malformed) =>
        \A e \in Entries :
            LET first == IF Eff("severity", 5) >= 7
                         THEN <<"Immediate intervention required due to high severity">>
                         ELSE <<>>
                actions == IF HasProfile(e.pathogen)
                           THEN pathogen_knowledge[e.pathogen].management
                           ELSE <<>>
                grain == IF Eff("growth_stage", "Tillering") \in {"Flowering", "Grain filling"}
                         THEN <<"Apply protective measures to prevent grain infection">>
                         ELSE <<>>
                vent == IF Eff("humidity", 80) >= 85
                        THEN <<"Improve field ventilation to reduce humidity">>
                        ELSE <<>>
            IN  e.recommendations = FirstFive(first \o actions \o grain \o vent)

C9_Witness ==
    /\ Returned
    /\ ~Malformed
    /\ Len(outcome.value) = 1
    /\ outcome.value[1].pathogen = "Unknown"
    /\ outcome.value[1].recommendations =
          <<"Immediate intervention required due to high severity",
            "Apply protective measures to prevent grain infection",
            "Improve field ventilation to reduce humidity">>

\* C10: every prediction predict returns, on every path, has at most 5
\* recommendations.
C10_AtMostFiveRecommendations ==
    Returned => \A e \in Entries : Len(e.recommendations) <= 5

C10_Witness ==
    /\ Returned
    /\ ~Malformed
    /\ Eff("severity", 5) >= 7
    /\ Eff("growth_stage", "Tillering") = "Flowering"
    /\ Eff("humidity", 80) >= 85
    /\ \E e \in Entries :
          /\ HasProfile(e.pathogen)
          /\ Len(e.recommendations) = 5
          /\ e.recommendations[1] = "Immediate intervention required due to high severity"

\* the pathogens of the output, in output order
OutputPathogens == [i \in 1..Len(outcome.value) |-> outcome.value[i].pathogen]

\* the entry is one of the three fallback predictions
IsFallback(e) ==
    \/ e.pathogen = "Magnaporthe oryzae" /\ e.confidence = D06 /\ NoneQualifies
    \/ e.pathogen = "Unknown" /\ e.confidence = D03
    \/ e.pathogen = "Unknown Pathogen" /\ e.confidence = D03

\* C11: the output of predict is either the subsequence of [Magnaporthe
\* oryzae, Rhizoctonia solani, Xanthomonas oryzae] made of the pathogens that
\* qualify, in that fixed order whatever their confidences, or one single
\* fallback prediction; a fallback never appears beside a rule-derived one.
C11_FixedOrderOrSingleFallback ==
    Returned =>
        IF ~Malformed /\ ~NoneQualifies
        THEN /\ OutputPathogens = SelectSeq(KnownPathogens, Qualifies)
             /\ \A e \in Entries : ~IsFallback(e)
        ELSE /\ Len(outcome.value) = 1
             /\ IsFallback(outcome.value[1])

C11_Witness ==
    /\ Returned
    /\ ~Malformed
    /\ OutputPathogens = <<"Magnaporthe oryzae", "Xanthomonas oryzae">>
    /\ FLt(outcome.value[1].confidence, outcome.value[2].confidence)
    /\ ~Qualifies("Rhizoctonia solani")

\* C12: predict is deterministic and history-independent: in any sequence of
\* predict calls on one engine, two calls with identical observations return
\* identical outputs, whatever other predict or get_breeding_recommendations
\* calls happened before or between them.
C12_SameObservationSameOutput ==
    \A i \in DOMAIN calls : \A j \in DOMAIN calls :
        ( /\ calls[i].op = "predict"
          /\ calls[j].op = "predict"
          /\ calls[i].passed = calls[j].passed )
        => calls[i].returned = calls[j].returned

C12_Witness ==
    /\ Len(calls) = 3
    /\ calls[1].op = "predict"
    /\ Len(calls[1].returned.value) = 2
    /\ calls[1].returned.value[1].recommendations[1] =
          "Immediate intervention required due to high severity"
    /\ calls[2].op = "get_breeding_recommendations"
    /\ Len(calls[2].returned.value) = 2
    /\ calls[3].op = "predict"
    /\ calls[3].passed = calls[1].passed
    /\ calls[3].returned = calls[1].returned

\* C13: for the observation {symptoms: [leaf blight, wilting], temperature 30,
\* humidity 75, rainfall 15, growth stage Tillering, severity 8, affected
\* area 60} predict returns a Xanthomonas oryzae prediction with confidence
\* 0.95, risk level High, action "Immediate Treatment" and, as
\* recommendations, the high-severity item followed by the four seeded
\* Xanthomonas management actions in order.
C13_ScenarioXanthomonas ==
    (Returned /\ diagnosis_data = Scenario) =>
        \E e \in Entries :
            /\ e.pathogen = "Xanthomonas oryzae"
            /\ e.confidence = D095
            /\ e.risk_level = "High"
            /\ e.action = "Immediate Treatment"
            /\ e.recommendations =
                  <<"Immediate intervention required due to high severity",
                    "Use certified seeds",
                    "Apply copper-based bactericides",
                    "Avoid excessive nitrogen",
                    "Manage water levels">>

C13_Witness ==
    /\ Returned
    /\ diagnosis_data = Scenario
    /\ ~rule.raised
    /\ Hundredths(rule.bacterial_score) = 100
    /\ Len(outcome.value) = 1
    /\ outcome.value[1].pathogen = "Xanthomonas oryzae"

(***************************************************************************)
(* Vocabulary of the properties of get_breeding_recommendations, stated on *)
(* the rows of the frame.                                                  *)
(***************************************************************************)
\* the frame has both columns and at least one row
WellFormedFrame ==
    /\ resistance_data.kind = "frame"
    /\ resistance_data.columns = {"pathogen", "resistance_score"}
    /\ resistance_data.rows # <<>>

PresentPathogens ==
    {resistance_data.rows[i].pathogen : i \in DOMAIN resistance_data.rows}

\* the rows of a pathogen that hold a score
ScoreRows(p) ==
    {i \in DOMAIN resistance_data.rows :
        /\ resistance_data.rows[i].pathogen = p
        /\ resistance_data.rows[i].resistance_score.k = "int"}

RECURSIVE SumOfScores(_)
SumOfScores(S) ==
    IF S = {} THEN 0
    ELSE LET i == CHOOSE x \in S : TRUE
         IN  resistance_data.rows[i].resistance_score.v + SumOfScores(S \ {i})

RECURSIVE SumOfSquares(_)
SumOfSquares(S) ==
    IF S = {} THEN 0
    ELSE LET i == CHOOSE x \in S : TRUE
         IN  resistance_data.rows[i].resistance_score.v * resistance_data.rows[i].resistance_score.v
             + SumOfSquares(S \ {i})

\* the mean of a pathogen's scores is below the bound (the mean is defined)
MeanBelow(p, bound) == SumOfScores(ScoreRows(p)) < bound * Cardinality(ScoreRows(p))

\* the positions of the output that name the pathogen
BreedingRows(p) == {j \in DOMAIN breeding.value : breeding.value[j].pathogen = p}

VariabilitySuffix == " - Focus on reducing variability between varieties"

\* C14: get_breeding_recommendations gives each pathogen a priority and a
\* message from its mean resistance alone: mean < 4 gives High with "Urgent
\* need ...", 4 <= mean < 6 gives Medium with "Improve resistance levels ...",
\* mean >= 6 gives Low with "Maintain current resistance levels ..." (exactly
\* 4 is Medium, exactly 6 is Low), and every pathogen of the input yields
\* exactly one entry.
C14_PriorityFromMean ==
    (Returned /\ WellFormedFrame) =>
        /\ Len(breeding.value) = Cardinality(PresentPathogens)
        /\ \A p \in PresentPathogens :
              /\ Cardinality(BreedingRows(p)) = 1
              /\ \A j \in BreedingRows(p) :
                    LET e == breeding.value[j]
                        expect(priority, message) ==
                            /\ e.priority = priority
                            /\ e.recommendation \in {message, message \o VariabilitySuffix}
                    IN  (ScoreRows(p) # {}) =>
                            IF MeanBelow(p, 4)
                            THEN expect("High",
                                        "Urgent need to develop varieties with higher resistance to "
                                        \o p)
                            ELSE IF MeanBelow(p, 6)
                            THEN expect("Medium",
                                        "Improve resistance levels to " \o p
                                        \o " through selective breeding")
                            ELSE expect("Low", "Maintain current resistance levels to " \o p)

C14_Witness ==
    /\ Returned
    /\ resistance_data.columns = {"pathogen", "resistance_score"}
    /\ resistance_data.rows = <<[pathogen |-> "A", resistance_score |-> PyInt(4)],
                                [pathogen |-> "B", resistance_score |-> PyInt(6)],
                                [pathogen |-> "C", resistance_score |-> PyInt(3)]>>
    /\ Len(breeding.value) = 3
    /\ \E j \in BreedingRows("A") : breeding.value[j].priority = "Medium"
    /\ \E j \in BreedingRows("B") : breeding.value[j].priority = "Low"
    /\ \E j \in BreedingRows("C") : breeding.value[j].priority = "High"

\* the pathogens and the priorities of the output, in output order
BreedingPathogens == [j \in DOMAIN breeding.value |-> breeding.value[j].pathogen]

BreedingPriorities == [j \in DOMAIN breeding.value |-> breeding.value[j].priority]

PriorityRank(priority) ==
    CASE priority = "High" -> 1 [] priority = "Medium" -> 2 [] priority = "Low" -> 3

\* C15: the list returned by get_breeding_recommendations is ordered by
\* priority rank, every High entry before every Medium entry before every Low
\* entry, whatever the order of the input; means C = 8, A = 3, B = 5 given in
\* the order [C, A, B] yield [A (High), B (Medium), C (Low)].
C15_OrderedByPriority ==
    (Returned /\ WellFormedFrame) =>
        /\ \A i \in DOMAIN breeding.value : \A j \in DOMAIN breeding.value :
              (i < j) => PriorityRank(breeding.value[i].priority)
                         <= PriorityRank(breeding.value[j].priority)
        /\ (resistance_data.rows = <<[pathogen |-> "C", resistance_score |-> PyInt(8)],
                                     [pathogen |-> "A", resistance_score |-> PyInt(3)],
                                     [pathogen |-> "B", resistance_score |-> PyInt(5)]>>)
           => /\ BreedingPathogens = <<"A", "B", "C">>
              /\ BreedingPriorities = <<"High", "Medium", "Low">>

C15_Witness ==
    /\ Returned
    /\ WellFormedFrame
    /\ resistance_data.rows = <<[pathogen |-> "A", resistance_score |-> PyInt(8)],
                                [pathogen |-> "C", resistance_score |-> PyInt(3)],
                                [pathogen |-> "B", resistance_score |-> PyInt(5)]>>
    /\ BreedingPathogens = <<"C", "B", "A">>
    /\ BreedingPriorities = <<"High", "Medium", "Low">>

\* the first row of the input that names the pathogen
FirstRow(p) ==
    CHOOSE i \in DOMAIN resistance_data.rows :
        /\ resistance_data.rows[i].pathogen = p
        /\ \A k \in 1..(i - 1) : resistance_data.rows[k].pathogen # p

\* C16: among pathogens that receive the same priority,
\* get_breeding_recommendations keeps the relative order in which those
\* pathogens appear in the input (the sort is stable with respect to input
\* order, not to pathogen name).
C16_TiesKeepInputOrder ==
    ( /\ Returned
      /\ WellFormedFrame
      /\ \A k \in DOMAIN resistance_data.rows :
            resistance_data.rows[k].resistance_score.k = "int" ) =>
        \A i \in DOMAIN breeding.value : \A j \in DOMAIN breeding.value :
            ( /\ i < j
              /\ breeding.value[i].priority = breeding.value[j].priority )
            => FirstRow(breeding.value[i].pathogen) < FirstRow(breeding.value[j].pathogen)

\* the three messages a pathogen may get, before any suffix
BaseMessages(p) ==
    {"Urgent need to develop varieties with higher resistance to " \o p,
     "Improve resistance levels to " \o p \o " through selective breeding",
     "Maintain current resistance levels to " \o p}

\* the sample standard deviation of the pathogen's scores is defined and
\* strictly greater than 2: sum((x - mean)^2) / (n - 1) > 4
DeviationAboveTwo(p) ==
    /\ Cardinality(ScoreRows(p)) >= 2
    /\ Cardinality(ScoreRows(p)) * SumOfSquares(ScoreRows(p))
         - SumOfScores(ScoreRows(p)) * SumOfScores(ScoreRows(p))
       > 4 * Cardinality(ScoreRows(p)) * (Cardinality(ScoreRows(p)) - 1)

\* C17: the suffix " - Focus on reducing variability between varieties" is
\* appended to a pathogen's message if and only if its standard deviation is
\* strictly greater than 2; a pathogen with an undefined standard deviation
\* (fewer than 2 samples) gets no suffix and reported variability 0, and
\* still gets an entry.
C17_SuffixIffDeviationAboveTwo ==
    (Returned /\ WellFormedFrame) =>
        \A p \in PresentPathogens :
            /\ BreedingRows(p) # {}
            /\ \A j \in BreedingRows(p) :
                  /\ IF DeviationAboveTwo(p)
                     THEN breeding.value[j].recommendation
                              \in {m \o VariabilitySuffix : m \in BaseMessages(p)}
                     ELSE breeding.value[j].recommendation \in BaseMessages(p)
                  /\ (Cardinality(ScoreRows(p)) < 2) => breeding.value[j].variability = 0

C17_Witness ==
    /\ Returned
    /\ WellFormedFrame
    /\ resistance_data.rows = <<[pathogen |-> "A", resistance_score |-> PyInt(3)],
                                [pathogen |-> "B", resistance_score |-> PyInt(5)],
                                [pathogen |-> "A", resistance_score |-> PyInt(6)]>>
    /\ \E j \in BreedingRows("A") :
          /\ breeding.value[j].recommendation =
                "Improve resistance levels to A through selective breeding"
                \o VariabilitySuffix
          /\ breeding.value[j].variability = 212
    /\ \E j \in BreedingRows("B") :
          /\ breeding.value[j].recommendation =
                "Improve resistance levels to B through selective breeding"
          /\ breeding.value[j].variability = 0

\* C18: get_breeding_recommendations never raises: on empty input it returns
\* an empty list, and on any internal failure (a missing column, an argument
\* that is no frame) it returns an empty list.
C18_BreedingNeverRaises ==
    Returned =>
        /\ ~breeding.raised
        /\ (resistance_data.kind = "frame" /\ resistance_data.rows = <<>>)
           => breeding.value = <<>>
        /\ ( \/ resistance_data.kind # "frame"
             \/ ~({"pathogen", "resistance_score"} \subseteq resistance_data.columns) )
           => breeding.value = <<>>

C18_Witness ==
    /\ Returned
    /\ resistance_data.kind = "frame"
    /\ resistance_data.columns = {"pathogen"}
    /\ Len(resistance_data.rows) = 1
    /\ ~breeding.raised
    /\ breeding.value = <<>>

\* C19: no sequence of predict and get_breeding_recommendations calls changes
\* the knowledge base: after any such sequence every pathogen profile
\* (symptoms, favorable conditions, management list) equals its value at
\* construction, and the caller's observation is left unchanged too.
C19_KnowledgeBaseUnchanged ==
    /\ pathogen_knowledge = initialize_pathogen_knowledge
    /\ \A p \in DOMAIN initialize_pathogen_knowledge :
          /\ pathogen_knowledge[p].symptoms = initialize_pathogen_knowledge[p].symptoms
          /\ pathogen_knowledge[p].favorable_conditions
                = initialize_pathogen_knowledge[p].favorable_conditions
          /\ pathogen_knowledge[p].management = initialize_pathogen_knowledge[p].management
    /\ (calls # <<>> /\ calls[Len(calls)].op = "predict")
       => diagnosis_data = calls[Len(calls)].passed

C19_Witness ==
    /\ Len(calls) = 3
    /\ calls[1].op = "get_breeding_recommendations"
    /\ calls[2].op = "predict"
    /\ Len(calls[2].returned.value) = 2
    /\ Len(calls[2].returned.value[2].recommendations) = 5
    /\ calls[3].op = "predict"
    /\ calls[3].returned.value[1].pathogen = "Unknown"
    /\ pathogen_knowledge = initialize_pathogen_knowledge

\* C20: composing the risk calculator with the action determiner can give
\* risk level High paired with the action "Monitor & Observe": for a
\* confidence below 0.6 the risk level is High only when the bonuses raise
\* the base risk to at least 0.8, the action is then "Monitor & Observe", and
\* a confidence of 0.5 with all four bonuses is such a case.
C20_HighWithMonitorAndObserve ==
    (Returned /\ FLt(args.confidence, D06)) =>
        /\ (ret.value.risk_level = "High") =>
              /\ ret.value.action = "Monitor & Observe"
              /\ Hundredths(args.confidence) + 10 * Bonuses(args.pathogen) >= 80
        /\ (FGe(args.confidence, D05) /\ Bonuses(args.pathogen) = 4) =>
              /\ ret.value.risk_level = "High"
              /\ ret.value.action = "Monitor & Observe"

C20_Witness ==
    /\ Returned
    /\ args.confidence = D05
    /\ HasProfile(args.pathogen)
    /\ Bonuses(args.pathogen) = 4
    /\ ~ret.raised
    /\ ret.value.risk_level = "High"
    /\ ret.value.action = "Monitor & Observe"

\* C21: every prediction returned by predict has a confidence in [0, 1] that
\* never exceeds 0.95, the only values being 0.3, 0.6, 0.8 and 0.95 (to the
\* precision of a double sum), and a risk level in {Low, Medium, High}, so
\* every prediction satisfies the CHECK constraints of the diagnoses table.
C21_ConfidenceAndRiskWithinChecks ==
    Returned =>
        \A e \in Entries :
            /\ FGe(e.confidence, Zero)
            /\ FGe(D095, e.confidence)
            /\ Hundredths(e.confidence) \in {30, 60, 80, 95}
            /\ e.risk_level \in RiskLevels
            /\ CheckConfidenceScore(e.confidence)
            /\ CheckRiskLevel(e.risk_level)

C21_Witness ==
    /\ Returned
    /\ ~Malformed
    /\ Hundredths(rule.bacterial_score) = 100
    /\ \E e \in Entries : e.confidence = D095 /\ e.risk_level = "High"
    /\ \E e \in Entries : Hundredths(e.confidence) = 60 /\ e.confidence # D06

\* the three items a recommendation list may hold besides management actions
SituationalItems ==
    {"Immediate intervention required due to high severity",
     "Apply protective measures to prevent grain infection",
     "Improve field ventilation to reduce humidity"}

\* C22: a prediction whose pathogen has no profile in the knowledge base (the
\* "Unknown" candidate) is still returned as a valid prediction: its
\* favorable conditions and typical symptoms are empty, its pathogen type is
\* "Unknown", it receives neither the temperature nor the humidity risk
\* bonus, and its recommendations contain no management action.
C22_UnknownHasEmptyProfile ==
    (Returned /\ ~Malformed) =>
        \A e \in Entries :
            (e.pathogen = "Unknown") =>
                /\ ~HasProfile(e.pathogen)
                /\ Len(outcome.value) = 1
                /\ e.favorable_conditions = EmptyDict
                /\ e.typical_symptoms = <<>>
                /\ e.pathogen_type = "Unknown"
                /\ e.risk_level =
                      (IF 30 + 10 * (Fires(Eff("severity", 5) >= 7)
                                     + Fires(Eff("affected_area", 25) >= 50)) >= 60
                       THEN "Medium" ELSE "Low")
                /\ \A i \in DOMAIN e.recommendations :
                      e.recommendations[i] \in SituationalItems

C22_Witness ==
    /\ Returned
    /\ ~Malformed
    /\ Eff("temperature", 25) = 30
    /\ Eff("humidity", 80) = 85
    /\ Eff("severity", 5) = 7
    /\ Eff("affected_area", 25) = 50
    /\ Len(outcome.value) = 1
    /\ outcome.value[1].pathogen = "Unknown"
    /\ outcome.value[1].pathogen_type = "Unknown"
    /\ outcome.value[1].risk_level = "Low"

\* C23: an observation that omits temperature, humidity, rainfall, severity
\* or affected area yields exactly the same predict output as the same
\* observation with the omitted fields set to 25, 80, 0, 5 and 25, the
\* defaults being the same in the scoring, risk and recommendation steps.
C23_OmittedFieldsTakeDefaults ==
    Returned => (outcome = ret)

C23_Witness ==
    /\ Returned
    /\ diagnosis_data.temperature.k = "absent"
    /\ diagnosis_data.humidity.k = "absent"
    /\ diagnosis_data.rainfall.k = "absent"
    /\ diagnosis_data.severity.k = "absent"
    /\ diagnosis_data.affected_area.k = "absent"
    /\ args.temperature = PyInt(25)
    /\ args.affected_area = PyInt(25)
    /\ Len(outcome.value) = 1
    /\ outcome.value[1].pathogen = "Xanthomonas oryzae"
    /\ outcome = ret

\* C24: in every prediction returned by predict, risk level High implies
\* action "Immediate Treatment" or "Urgent Monitoring": the pair (High,
\* "Monitor & Observe") never occurs in any output of predict.
C24_HighImpliesTreatmentOrMonitoring ==
    Returned =>
        \A e \in Entries :
            (e.risk_level = "High") =>
                e.action \in {"Immediate Treatment", "Urgent Monitoring"}

C24_Witness ==
    /\ Returned
    /\ ~Malformed
    /\ NoneQualifies
    /\ Len(outcome.value) = 1
    /\ outcome.value[1].confidence = D06
    /\ outcome.value[1].risk_level = "High"
    /\ outcome.value[1].action = "Urgent Monitoring"

\* C25: in the output of predict, a prediction for one of the three known
\* pathogens always has risk level Medium or High, and the "Unknown"
\* prediction always has risk level Low and action "Monitor & Observe",
\* whatever the severity and affected area are.
C25_KnownAtLeastMediumUnknownLow ==
    Returned =>
        \A e \in Entries :
            /\ HasProfile(e.pathogen) => e.risk_level \in {"Medium", "High"}
            /\ (e.pathogen = "Unknown") =>
                  /\ e.risk_level = "Low"
                  /\ e.action = "Monitor & Observe"

C25_Witness ==
    /\ Returned
    /\ ~Malformed
    /\ NoneQualifies
    /\ Len(outcome.value) = 1
    /\ outcome.value[1].pathogen = "Magnaporthe oryzae"
    /\ outcome.value[1].confidence = D06
    /\ Bonuses("Magnaporthe oryzae") = 0
    /\ outcome.value[1].risk_level = "Medium"

\* some symptom of the pathogen is observed
SymptomMatch(p) ==
    SymptomsObserved
    \cap (CASE p = "Magnaporthe oryzae" -> {"leaf spots", "neck rot", "panicle blast"}
            [] p = "Rhizoctonia solani" -> {"sheath blight", "lesions", "yellowing"}
            [] p = "Xanthomonas oryzae" -> {"leaf blight", "yellowing", "wilting"}) # {}

\* all three non-symptom rules of the pathogen fire
EnvironmentRulesFire(p) ==
    CASE p = "Magnaporthe oryzae" ->
            /\ Eff("temperature", 25) \in 20..30
            /\ Eff("humidity", 80) >= 85
            /\ Eff("growth_stage", "") \in {"Heading", "Flowering"}
      [] p = "Rhizoctonia solani" ->
            /\ Eff("temperature", 25) \in 25..32
            /\ Eff("humidity", 80) >= 80
            /\ Eff("growth_stage", "") \in {"Tillering", "Stem elongation"}
      [] p = "Xanthomonas oryzae" ->
            /\ Eff("temperature", 25) \in 25..34
            /\ Eff("humidity", 80) >= 70
            /\ Eff("rainfall", 0) > 10

\* C26: a pathogen none of whose symptoms is observed still becomes a
\* candidate (confidence 0.6) exactly when all three of its non-symptom rules
\* fire; hence predict with empty symptoms returns such known-pathogen
\* predictions instead of the "Unknown" prediction, and the Magnaporthe
\* fallback is not used when another pathogen qualified on environment alone.
C26_CandidateOnEnvironmentAlone ==
    (Returned /\ ~Malformed) =>
        /\ \A j \in 1..3 :
              LET p == KnownPathogens[j]
              IN  (~SymptomMatch(p)) =>
                      /\ Qualifies(p) <=> EnvironmentRulesFire(p)
                      /\ Qualifies(p) =>
                            \E e \in Entries :
                                e.pathogen = p /\ Hundredths(e.confidence) = 60
        /\ (\E j \in 1..3 : ~SymptomMatch(KnownPathogens[j])
                            /\ EnvironmentRulesFire(KnownPathogens[j]))
           => \A e \in Entries :
                 /\ e.pathogen # "Unknown"
                 /\ Qualifies(e.pathogen)

C26_Witness ==
    /\ Returned
    /\ ~Malformed
    /\ diagnosis_data.symptoms.k = "list"
    /\ SymptomsObserved = {}
    /\ OutputPathogens = <<"Rhizoctonia solani", "Xanthomonas oryzae">>
    /\ \A e \in Entries : Hundredths(e.confidence) = 60

\* C27: for a prediction of a known pathogen (four management actions) at
\* most one item besides the management actions survives truncation: with
\* severity >= 7 the list is exactly the "Immediate intervention" item
\* followed by the four management actions, the grain-infection and
\* field-ventilation items being dropped whatever the growth stage and
\* humidity; with severity < 7, growth stage Flowering or Grain filling and
\* humidity >= 85, the field-ventilation item is dropped.
C27_TruncationDropsLateItems ==
    (Returned /\ ~Malformed) =>
        \A e \in Entries :
            HasProfile(e.pathogen) =>
                /\ Cardinality({i \in DOMAIN e.recommendations :
                                   e.recommendations[i] \in SituationalItems}) <= 1
                /\ (Eff("severity", 5) >= 7) =>
                      e.recommendations =
                          <<"Immediate intervention required due to high severity">>
                          \o pathogen_knowledge[e.pathogen].management
                /\ ( /\ Eff("severity", 5) < 7
                     /\ Eff("growth_stage", "Tillering") \in {"Flowering", "Grain filling"}
                     /\ Eff("humidity", 80) >= 85 ) =>
                      e.recommendations =
                          Append(pathogen_knowledge[e.pathogen].management,
                                 "Apply protective measures to prevent grain infection")

C27_Witness ==
    /\ Returned
    /\ ~Malformed
    /\ Eff("severity", 5) < 7
    /\ Eff("growth_stage", "Tillering") = "Grain filling"
    /\ Eff("humidity", 80) >= 85
    /\ \E e \in Entries :
          /\ HasProfile(e.pathogen)
          /\ Len(e.recommendations) = 5
          /\ e.recommendations[5] = "Apply protective measures to prevent grain infection"

\* C28: a prediction returned by predict shares no mutable state with the
\* engine: after a caller modifies the favorable conditions or typical
\* symptoms of a returned prediction, later predict calls on the same engine
\* return the same results as before the modification, and the knowledge
\* base is unchanged.
C28_ReturnedPredictionNotShared ==
    /\ pathogen_knowledge = initialize_pathogen_knowledge
    /\ \A i \in DOMAIN calls : \A j \in DOMAIN calls :
          ( /\ calls[i].op = "predict"
            /\ calls[j].op = "predict"
            /\ calls[i].passed = calls[j].passed )
          => calls[i].returned = calls[j].returned

(***************************************************************************)
(* Vocabulary of the properties of the database manager.                   *)
(***************************************************************************)
\* the rows of a table among rows
RowsOf(rows, table) == SelectSeq(rows, LAMBDA row : row.table = table)

\* the rows that belong to a sample
SampleRows(rows, sample_id) == SelectSeq(rows, LAMBDA row : row.sample = sample_id)

\* the rows a step added to the database
Added == SubSeq(database', Len(database) + 1, Len(database'))

\* the symptoms and the severity a stored observation stands for
StoredSymptoms(dd) == IF dd.symptoms.k = "absent" THEN <<>> ELSE dd.symptoms.v

StoredSeverity(dd) == IF dd.severity.k = "absent" THEN 5 ELSE dd.severity.v

\* the sample row, its environmental conditions, its symptom rows and one
\* diagnosis row per prediction, and nothing else but catalogue rows
WholeDiagnosis(rows, dd, prediction_results) ==
    /\ RowsOf(rows, "samples") = <<Row("samples", dd.sample_id.v, dd.sample_id.v)>>
    /\ RowsOf(rows, "environmental_conditions")
          = <<Row("environmental_conditions", dd.sample_id.v, "")>>
    /\ RowsOf(rows, "sample_symptoms")
          = [i \in DOMAIN StoredSymptoms(dd) |->
                Row("sample_symptoms", dd.sample_id.v, StoredSymptoms(dd)[i])]
    /\ RowsOf(rows, "diagnoses")
          = [i \in DOMAIN prediction_results |->
                Row("diagnoses", dd.sample_id.v, prediction_results[i].pathogen)]
    /\ \A i \in DOMAIN rows :
          rows[i].table \in {"samples", "environmental_conditions", "sample_symptoms",
                             "diagnoses", "locations", "rice_varieties", "symptoms",
                             "pathogens"}

\* a step the call is bound to fail at: the sample_id is already stored, the
\* location is missing, a diagnosis row violates its severity check
BoundToFail(db, dd, prediction_results) ==
    \/ Holds(db, Row("samples", dd.sample_id.v, dd.sample_id.v))
    \/ dd.location.k = "absent"
    \/ (prediction_results # <<>>) /\ (StoredSeverity(dd) \notin 1..10)

\* a call of store_diagnosis that changed the state
StoreStep == (manager = "constructed") /\ (manager' = "constructed")

Attempts == Len(SelectSeq(events, LAMBDA e : e # "sleep"))

Failures == Len(SelectSeq(events, LAMBDA e : e = "failed"))

\* the constructor is in its loop or has left it in the way the loop allows:
\* at most 3 attempts, nothing after a successful one, a wait exactly between
\* a failed attempt and the next one, the engine None after 3 failed attempts
RetryDiscipline ==
    /\ manager # "raised"
    /\ Attempts <= 3
    /\ \A i \in DOMAIN events :
          /\ (events[i] = "connected") => (i = Len(events)) /\ (manager = "constructed")
          /\ (events[i] = "sleep") =>
                /\ i > 1
                /\ events[i - 1] = "failed"
                /\ (i < Len(events)) \/ (manager = "connecting")
          /\ (events[i] = "failed") /\ (i < Len(events)) => (events[i + 1] = "sleep")
          /\ (events[i] = "failed") /\ (i = Len(events)) =>
                \/ (Failures < 3) /\ (manager = "sleeping")
                \/ (Failures = 3) /\ (manager = "constructed")
    /\ (manager = "constructed") /\ (Failures = 3) => (engine = "None")

\* without an engine check_connection is False: every call of store_diagnosis
\* ends with the warning, and the database holds nothing
NothingWritten ==
    (engine = "None") =>
        /\ ~check_connection(engine, TRUE)
        /\ database = <<>>
        /\ stored.logged \in {"", "warning"}

\* POSTGRES_PORT is unset or a number
PortIsNumber == ~Port(environ).raised

====
